---- MODULE Spec2Model ----
(***************************************************************************)
(* Model of the rule-based text-to-record extraction engine                *)
(* (src/services/textParser.ts).                                           *)
(*                                                                         *)
(* A JavaScript string is a sequence of one-character strings.  The value  *)
(* `undefined` is the one-element sequence <<"undefined">>, and a thrown   *)
(* TypeError is <<"TypeError">>: neither is a sequence of characters, so   *)
(* no string of the program equals them.                                   *)
(*                                                                         *)
(* Regular expressions are data (Cls, Cat, Alt, Rep, Grp, Bol, Eol, Wb)    *)
(* interpreted by a backtracking matcher that tries the ways to match in   *)
(* the priority order of the ECMAScript semantics, so that every regex of  *)
(* the source is a definition that can be read against the source literal. *)
(*                                                                         *)
(* The module also models the single-flight guard and the retry loop of    *)
(* the remote extraction (src/services/geminiService.ts) and the state of  *)
(* the page (src/App.tsx): uploads, exports, the history and the total of  *)
(* the form.  An asynchronous handler is one action per stretch between    *)
(* two awaits; a handler and the render and effects that follow it are one *)
(* step.                                                                   *)
(***************************************************************************)
EXTENDS Integers, Sequences, FiniteSets, TLC

\* ------------------------------------------------------------ characters

LowerLetters == <<"a","b","c","d","e","f","g","h","i","j","k","l","m",
                  "n","o","p","q","r","s","t","u","v","w","x","y","z">>
UpperLetters == <<"A","B","C","D","E","F","G","H","I","J","K","L","M",
                  "N","O","P","Q","R","S","T","U","V","W","X","Y","Z">>

Range(f) == {f[k] : k \in DOMAIN f}

Letter == Range(LowerLetters) \cup Range(UpperLetters)
Digit == {"0","1","2","3","4","5","6","7","8","9"}
\* \w
WordChar == Letter \cup Digit \cup {"_"}
\* \s, restricted to the white space the inputs use
Space == {" ", "\t", "\n", "\r"}
\* the characters `.` does not match
LineTerminator == {"\n", "\r"}
Punct == {":", "-", "/", ".", ",", "(", ")", "+", "_", "#"}
Char == Letter \cup Digit \cup Space \cup Punct
\* `.`
Dot == Char \ LineTerminator

undefined == <<"undefined">>
TypeError == <<"TypeError">>

IsString(v) == \A k \in DOMAIN v : v[k] \in Char

\* the characters a literal character matches under the /i flag
FoldCase(c) ==
    IF \E k \in 1..26 : c \in {LowerLetters[k], UpperLetters[k]}
    THEN LET k == CHOOSE k \in 1..26 : c \in {LowerLetters[k], UpperLetters[k]}
         IN  {LowerLetters[k], UpperLetters[k]}
    ELSE {c}

\* ------------------------------------------------------- regex syntax

Inf == -1

\* A regex node carries, beside its syntax, two facts derived from it:
\* nullable (it can match without consuming a character) and first (the
\* characters a non-empty match of it can start with).

\* the members of a concatenation, those of nested concatenations inlined
RECURSIVE Flatten(_)
Flatten(rs) ==
    IF rs = << >> THEN << >>
    ELSE (IF Head(rs).t = "cat" THEN Head(rs).rs ELSE <<Head(rs)>>) \o Flatten(Tail(rs))

RECURSIVE FirstOfCat(_, _)
FirstOfCat(rs, k) ==
    IF k > Len(rs) THEN {}
    ELSE rs[k].first \cup (IF rs[k].nullable THEN FirstOfCat(rs, k + 1) ELSE {})

\* a character class: [...], \d, \s, \w, `.`, or one literal character
Cls(cs) == [t |-> "cls", cs |-> cs, first |-> cs, nullable |-> FALSE]
\* r1 r2 ...
Cat(rs) ==
    [t |-> "cat", rs |-> Flatten(rs), first |-> FirstOfCat(rs, 1),
     nullable |-> \A k \in DOMAIN rs : rs[k].nullable]
\* r1 | r2 | ...
Alt(rs) ==
    [t |-> "alt", rs |-> rs, first |-> UNION {rs[k].first : k \in DOMAIN rs},
     nullable |-> \E k \in DOMAIN rs : rs[k].nullable]
\* r{min,max}, greedy; max = Inf for r{min,}
Rep(r, min, max) ==
    [t |-> "rep", r |-> r, min |-> min, max |-> max, greedy |-> TRUE,
     first |-> r.first, nullable |-> (min = 0 \/ r.nullable)]
\* r{min,max}?, lazy
RepLazy(r, min, max) ==
    [t |-> "rep", r |-> r, min |-> min, max |-> max, greedy |-> FALSE,
     first |-> r.first, nullable |-> (min = 0 \/ r.nullable)]
\* the capturing group number n: (r)
Grp(n, r) == [t |-> "grp", n |-> n, r |-> r, first |-> r.first, nullable |-> r.nullable]
\* ^ and $ without the m flag, and \b
Bol == [t |-> "bol", first |-> {}, nullable |-> TRUE]
Eol == [t |-> "eol", first |-> {}, nullable |-> TRUE]
Wb == [t |-> "wb", first |-> {}, nullable |-> TRUE]

Star(r) == Rep(r, 0, Inf)
Plus(r) == Rep(r, 1, Inf)
Opt(r) == Rep(r, 0, 1)
PlusLazy(r) == RepLazy(r, 1, Inf)
\* a literal word, case-sensitive and under the /i flag
Lit(w) == Cat([k \in 1..Len(w) |-> Cls({w[k]})])
LitI(w) == Cat([k \in 1..Len(w) |-> Cls(FoldCase(w[k]))])

\* ------------------------------------------------------ regex matching

\* captures: for each group the <<start, end>> of what it matched, <<0, 0>>
\* while it has matched nothing
NoCaps(n) == [k \in 1..n |-> <<0, 0>>]

IsWordAt(s, i) == i >= 1 /\ i <= Len(s) /\ s[i] \in WordChar

\* what is left to do of a repetition after n iterations, the last of which
\* started at position from; and the end of group n, which started at from
Loop(rep, n, from) == [t |-> "loop", rep |-> rep, n |-> n, from |-> from]
Close(n, from) == [t |-> "close", n |-> n, from |-> from]

\* the length of the longest run of characters of cs in s from position i,
\* limit at most (no limit when limit is Inf)
RECURSIVE RunLen(_, _, _, _)
RunLen(s, i, cs, limit) ==
    IF limit = 0 \/ i > Len(s) \/ s[i] \notin cs THEN 0
    ELSE 1 + RunLen(s, i + 1, cs, limit - 1)

RECURSIVE Backtrack(_, _, _, _)
RECURSIVE BacktrackAlt(_, _, _, _, _, _)
RECURSIVE BacktrackCount(_, _, _, _, _, _, _)

\* The backtracking matcher: todo is the sequence of regex nodes still to be
\* matched, one after the other, from position i of s with captures c.  The
\* result is <<end, captures>> of the first way that matches all of todo, in
\* the order backtracking tries them (an alternative before the next, one
\* more iteration before stopping when greedy, stopping first when lazy), and
\* << >> when there is none.
Backtrack(todo, s, i, c) ==
    IF todo = << >> THEN <<i, c>>
    ELSE LET r == Head(todo)
             rest == Tail(todo)
         IN  CASE r.t = "cls" ->
                    IF i <= Len(s) /\ s[i] \in r.cs
                    THEN Backtrack(rest, s, i + 1, c) ELSE << >>
               [] r.t = "loop" ->
                    \* an iteration beyond the minimum that consumed nothing is refused
                    IF r.n > r.rep.min /\ i = r.from THEN << >>
                    ELSE LET more == IF r.rep.max = Inf \/ r.n < r.rep.max
                                     THEN Backtrack(<<r.rep.r, Loop(r.rep, r.n + 1, i)>> \o rest,
                                                    s, i, c)
                                     ELSE << >>
                             stop == IF r.n >= r.rep.min
                                     THEN Backtrack(rest, s, i, c) ELSE << >>
                         IN  IF r.rep.greedy
                             THEN (IF more # << >> THEN more ELSE stop)
                             ELSE (IF stop # << >> THEN stop ELSE more)
               [] r.t = "cat" -> Backtrack(r.rs \o rest, s, i, c)
               [] r.t = "rep" ->
                    IF r.r.t = "cls"
                    THEN LET longest == RunLen(s, i, r.r.cs, r.max)
                         IN  BacktrackCount(r, IF r.greedy THEN longest ELSE r.min,
                                            longest, rest, s, i, c)
                    ELSE Backtrack(<<Loop(r, 0, 0)>> \o rest, s, i, c)
               [] r.t = "grp" -> Backtrack(<<r.r, Close(r.n, i)>> \o rest, s, i, c)
               [] r.t = "close" ->
                    Backtrack(rest, s, i, [c EXCEPT ![r.n] = <<r.from, i>>])
               [] r.t = "alt" -> BacktrackAlt(r.rs, 1, rest, s, i, c)
               [] r.t = "bol" -> IF i = 1 THEN Backtrack(rest, s, i, c) ELSE << >>
               [] r.t = "eol" ->
                    IF i = Len(s) + 1 THEN Backtrack(rest, s, i, c) ELSE << >>
               [] r.t = "wb" ->
                    IF IsWordAt(s, i - 1) # IsWordAt(s, i)
                    THEN Backtrack(rest, s, i, c) ELSE << >>

\* The repetition r of a character class, every iteration of which consumes
\* one character: k iterations are tried, then one fewer when greedy and one
\* more when lazy, between r.min and the longest run.
BacktrackCount(r, k, longest, rest, s, i, c) ==
    IF k < r.min \/ k > longest THEN << >>
    ELSE LET m == Backtrack(rest, s, i + k, c)
         IN  IF m # << >> THEN m
             ELSE BacktrackCount(r, IF r.greedy THEN k - 1 ELSE k + 1,
                                 longest, rest, s, i, c)

BacktrackAlt(rs, k, rest, s, i, c) ==
    IF k > Len(rs) THEN << >>
    ELSE LET m == Backtrack(<<rs[k]>> \o rest, s, i, c)
         IN  IF m # << >> THEN m ELSE BacktrackAlt(rs, k + 1, rest, s, i, c)

\* String.prototype.match without the g flag: the leftmost match, the first
\* in priority order at that position; null is the empty sequence.
\* A match is <<start, end, captures>>.  A position whose character cannot
\* start a match of a regex that must consume one is passed over.
RECURSIVE SearchFrom(_, _, _, _)
SearchFrom(r, groups, s, i) ==
    IF i > Len(s) + 1 THEN << >>
    ELSE IF ~r.nullable /\ (i > Len(s) \/ s[i] \notin r.first)
         THEN SearchFrom(r, groups, s, i + 1)
    ELSE LET m == Backtrack(<<r>>, s, i, NoCaps(groups))
         IN  IF m # << >> THEN <<i, m[1], m[2]>>
             ELSE SearchFrom(r, groups, s, i + 1)

Match(r, groups, s) == SearchFrom(r, groups, s, 1)

\* RegExp.prototype.test
Test(r, groups, s) == Match(r, groups, s) # << >>

\* m[0] and m[k] of a match m of s
Whole(m, s) == SubSeq(s, m[1], m[2] - 1)
Group(m, k, s) ==
    IF m[3][k] = <<0, 0>> THEN undefined ELSE SubSeq(s, m[3][k][1], m[3][k][2] - 1)

\* ----------------------------------------------------- string helpers

\* a || b on string-or-undefined values
Or(a, b) == IF a # << >> /\ a # undefined THEN a ELSE b

RECURSIVE TrimStart(_)
TrimStart(s) == IF s # << >> /\ Head(s) \in Space THEN TrimStart(Tail(s)) ELSE s

RECURSIVE TrimEnd(_)
TrimEnd(s) ==
    IF s # << >> /\ s[Len(s)] \in Space THEN TrimEnd(SubSeq(s, 1, Len(s) - 1)) ELSE s

\* String.prototype.trim; on undefined the call throws
Trim(v) == IF v = undefined THEN TypeError ELSE TrimEnd(TrimStart(v))

\* s.replace(/\s+/g, '')
RECURSIVE RemoveSpace(_)
RemoveSpace(s) ==
    IF s = << >> THEN << >>
    ELSE IF Head(s) \in Space THEN RemoveSpace(Tail(s))
    ELSE <<Head(s)>> \o RemoveSpace(Tail(s))

\* s.replace(/\r/g, '\n')
ReplaceCR(s) == [k \in 1..Len(s) |-> IF s[k] = "\r" THEN "\n" ELSE s[k]]

\* s.substring(0, n)
Substring0(s, n) == SubSeq(s, 1, IF Len(s) < n THEN Len(s) ELSE n)

\* a.slice(from, to) with 0-based bounds, 0 <= from <= to
Slice(a, from, to) == SubSeq(a, from + 1, IF Len(a) < to THEN Len(a) ELSE to)

\* a.join(' ')
RECURSIVE JoinSpace(_)
JoinSpace(a) ==
    IF a = << >> THEN << >>
    ELSE IF Len(a) = 1 THEN a[1]
    ELSE a[1] \o <<" ">> \o JoinSpace(Tail(a))

\* s without its leading line feeds
RECURSIVE TrimLF(_)
TrimLF(s) == IF s # << >> /\ Head(s) = "\n" THEN TrimLF(Tail(s)) ELSE s

\* s.split(/\n+/): the pieces between the maximal runs of line feeds
RECURSIVE SplitLF(_, _)
SplitLF(s, piece) ==
    IF s = << >> THEN <<piece>>
    ELSE IF Head(s) = "\n"
         THEN <<piece>> \o SplitLF(TrimLF(s), << >>)
         ELSE SplitLF(Tail(s), Append(piece, Head(s)))

\* a.map(l => l.trim()).filter(Boolean)
RECURSIVE TrimAndFilter(_)
TrimAndFilter(a) ==
    IF a = << >> THEN << >>
    ELSE LET l == Trim(Head(a))
         IN  (IF l # << >> THEN <<l>> ELSE << >>) \o TrimAndFilter(Tail(a))

\* ------------------------------------------------------------ firstMatch

\* firstMatch without its test of the match: m[1] of null raises a TypeError
firstMatchUnguarded(regex, s) ==
    LET m == Match(regex, 1, s)
    IN  IF m # << >> THEN Trim(Group(m, 1, s)) ELSE TypeError

firstMatch(regex, s) ==
    LET m == Match(regex, 1, s)
    IN  IF m # << >> THEN Trim(Group(m, 1, s)) ELSE << >>

\* [:\-\s]
LabelSep == Cls({":", "-"} \cup Space)
\* (.+)
RestOfLine == Grp(1, Plus(Cls(Dot)))
\* ([A-Za-z0-9\-\/]+)
JobToken == Grp(1, Plus(Cls(Letter \cup Digit \cup {"-", "/"})))

\* /Client[:\-\s]+(.+)/i
ReClient == Cat(<<LitI(<<"C","l","i","e","n","t">>), Plus(LabelSep), RestOfLine>>)
\* /Client\s+Name[:\-\s]+(.+)/i
ReClientName ==
    Cat(<<LitI(<<"C","l","i","e","n","t">>), Plus(Cls(Space)),
          LitI(<<"N","a","m","e">>), Plus(LabelSep), RestOfLine>>)
\* /Job\s*No[:\-\s]*([A-Za-z0-9\-\/]+)/i
ReJobNo ==
    Cat(<<LitI(<<"J","o","b">>), Star(Cls(Space)), LitI(<<"N","o">>),
          Star(LabelSep), JobToken>>)
\* /Job[:\-\s]*([A-Za-z0-9\-\/]+)/i
ReJob == Cat(<<LitI(<<"J","o","b">>), Star(LabelSep), JobToken>>)
\* /Contact\s*Name[:\-\s]+(.+)/i
ReContactName ==
    Cat(<<LitI(<<"C","o","n","t","a","c","t">>), Star(Cls(Space)),
          LitI(<<"N","a","m","e">>), Plus(LabelSep), RestOfLine>>)
\* /Contact[:\-\s]+(.+)/i
ReContact == Cat(<<LitI(<<"C","o","n","t","a","c","t">>), Plus(LabelSep), RestOfLine>>)
\* /Address[:\-\s]+(.+)/i
ReAddress == Cat(<<LitI(<<"A","d","d","r","e","s","s">>), Plus(LabelSep), RestOfLine>>)
\* /Description[:\-\s]+(.+)/i
ReDescription ==
    Cat(<<LitI(<<"D","e","s","c","r","i","p","t","i","o","n">>), Plus(LabelSep), RestOfLine>>)
\* /Date[:\-\s]+(.+)/i
ReDateLabel == Cat(<<LitI(<<"D","a","t","e">>), Plus(LabelSep), RestOfLine>>)

\* ------------------------------------------------------------ parsePhone

\* [\s\-().]
PhoneSep == Cls(Space \cup {"-", "(", ")", "."})

\* /(?:Phone|Tel|Telephone|Mobile|M:|T:|Cell)[:\s]*([+\d][\d\s\-().]{6,}\d)/i
RePhoneLabelled ==
    Cat(<<Alt(<<LitI(<<"P","h","o","n","e">>), LitI(<<"T","e","l">>),
                LitI(<<"T","e","l","e","p","h","o","n","e">>),
                LitI(<<"M","o","b","i","l","e">>), LitI(<<"M",":">>),
                LitI(<<"T",":">>), LitI(<<"C","e","l","l">>)>>),
          Star(Cls({":"} \cup Space)),
          Grp(1, Cat(<<Cls({"+"} \cup Digit),
                       Rep(Cls(Digit \cup Space \cup {"-", "(", ")", "."}), 6, Inf),
                       Cls(Digit)>>))>>)

\* /([+]?\d{1,3}[\s\-().]*\d{2,4}[\s\-().]*\d{2,4}[\s\-().]*\d{2,4})/
RePhoneGeneric ==
    Grp(1, Cat(<<Opt(Cls({"+"})), Rep(Cls(Digit), 1, 3),
                 Star(PhoneSep), Rep(Cls(Digit), 2, 4),
                 Star(PhoneSep), Rep(Cls(Digit), 2, 4),
                 Star(PhoneSep), Rep(Cls(Digit), 2, 4)>>))

\* what the extractor removes from the matched run: replace(/\s+/g, '')
PhoneStrip(s) == RemoveSpace(s)

parsePhone(s) ==
    LET labelled == Match(RePhoneLabelled, 1, s)
    IN  IF labelled # << >> THEN PhoneStrip(Group(labelled, 1, s))
        ELSE LET generic == Match(RePhoneGeneric, 1, s)
             IN  IF generic # << >> THEN PhoneStrip(Group(generic, 1, s)) ELSE << >>

\* ------------------------------------------------------------- parseDate

\* [\/\-]
DateSep == Cls({"/", "-"})

\* /(\b\d{1,2}[\/\-]\d{1,2}[\/\-]\d{2,4}\b)/
ReDateNumeric ==
    Grp(1, Cat(<<Wb, Rep(Cls(Digit), 1, 2), DateSep, Rep(Cls(Digit), 1, 2),
                 DateSep, Rep(Cls(Digit), 2, 4), Wb>>))
\* /(\b\d{4}-\d{1,2}-\d{1,2}\b)/
ReDateISO ==
    Grp(1, Cat(<<Wb, Rep(Cls(Digit), 4, 4), Cls({"-"}), Rep(Cls(Digit), 1, 2),
                 Cls({"-"}), Rep(Cls(Digit), 1, 2), Wb>>))
\* /(\b\d{1,2}\s+(Jan|Feb|Mar|Apr|May|Jun|Jul|Aug|Sep|Oct|Nov|Dec)[a-z]*\s+\d{4}\b)/i
ReDateMonthName ==
    Grp(1, Cat(<<Wb, Rep(Cls(Digit), 1, 2), Plus(Cls(Space)),
                 Grp(2, Alt(<<LitI(<<"J","a","n">>), LitI(<<"F","e","b">>),
                              LitI(<<"M","a","r">>), LitI(<<"A","p","r">>),
                              LitI(<<"M","a","y">>), LitI(<<"J","u","n">>),
                              LitI(<<"J","u","l">>), LitI(<<"A","u","g">>),
                              LitI(<<"S","e","p">>), LitI(<<"O","c","t">>),
                              LitI(<<"N","o","v">>), LitI(<<"D","e","c">>)>>)),
                 Star(Cls(Letter)), Plus(Cls(Space)), Rep(Cls(Digit), 4, 4), Wb>>))

\* parseDate ranked by position: of the first matches of the three forms, the
\* one that begins first in the text
parseDateByPosition(s) ==
    LET found == {m \in {Match(ReDateNumeric, 1, s), Match(ReDateISO, 1, s),
                         Match(ReDateMonthName, 2, s)} : m # << >>}
    IN  IF found = {} THEN << >>
        ELSE LET m == CHOOSE m \in found : \A n \in found : m[1] <= n[1]
             IN  Group(m, 1, s)

\* parseDate without its first strategy, the numeric form
parseDateNoNumeric(s) ==
    LET d2 == Match(ReDateISO, 1, s)
    IN  IF d2 # << >> THEN Group(d2, 1, s)
        ELSE LET monthName == Match(ReDateMonthName, 2, s)
             IN  IF monthName # << >> THEN Group(monthName, 1, s) ELSE << >>

parseDate(s) ==
    LET d1 == Match(ReDateNumeric, 1, s)
    IN  IF d1 # << >> THEN Group(d1, 1, s)
        ELSE LET d2 == Match(ReDateISO, 1, s)
             IN  IF d2 # << >> THEN Group(d2, 1, s)
                 ELSE LET monthName == Match(ReDateMonthName, 2, s)
                      IN  IF monthName # << >> THEN Group(monthName, 1, s) ELSE << >>

\* ------------------------------------------------- parseItemsFromLines

\* the header filter without the words telephone and phone
ReHeaderShort ==
    Cat(<<Bol,
          Grp(1, Alt(<<LitI(<<"c","l","i","e","n","t">>),
                       LitI(<<"c","o","n","t","a","c","t">>),
                       LitI(<<"a","d","d","r","e","s","s">>),
                       LitI(<<"j","o","b">>),
                       LitI(<<"d","a","t","e">>),
                       LitI(<<"d","e","s","c","r","i","p","t","i","o","n">>),
                       LitI(<<"n","o","t","e","s">>),
                       LitI(<<"s","u","p","e","r","v","i","s","o","r">>)>>)),
          Cls({":"} \cup Space)>>)

\* /^(client|contact|address|job|date|description|notes|supervisor|telephone|phone)[:\s]/i
ReHeader ==
    Cat(<<Bol,
          Grp(1, Alt(<<LitI(<<"c","l","i","e","n","t">>),
                       LitI(<<"c","o","n","t","a","c","t">>),
                       LitI(<<"a","d","d","r","e","s","s">>),
                       LitI(<<"j","o","b">>),
                       LitI(<<"d","a","t","e">>),
                       LitI(<<"d","e","s","c","r","i","p","t","i","o","n">>),
                       LitI(<<"n","o","t","e","s">>),
                       LitI(<<"s","u","p","e","r","v","i","s","o","r">>),
                       LitI(<<"t","e","l","e","p","h","o","n","e">>),
                       LitI(<<"p","h","o","n","e">>)>>)),
          Cls({":"} \cup Space)>>)

\* \d+[.,]?\d*
Number == Cat(<<Plus(Cls(Digit)), Opt(Cls({".", ","})), Star(Cls(Digit))>>)

\* pattern 1 with \s+ for \s* between the number and the unit
RePattern1SpaceRequired ==
    Cat(<<Bol, Grp(1, Cat(<<Plus(Cls(Digit)), Opt(Cls({".", ","})), Star(Cls(Digit))>>)),
          Plus(Cls(Space)),
          Grp(2, Alt(<<LitI(<<"k","g">>), LitI(<<"k","g","s">>),
                       LitI(<<"K","G">>), LitI(<<"K","G","s">>)>>)),
          Wb, Star(Cls(Space \cup {"-", ":"})), Grp(3, Plus(Cls(Dot))), Eol>>)

\* /^(\d+[.,]?\d*)\s*(kg|kgs|KG|KGs)\b[\s\-:]*(.+)$/i
RePattern1 ==
    Cat(<<Bol, Grp(1, Number), Star(Cls(Space)),
          Grp(2, Alt(<<LitI(<<"k","g">>), LitI(<<"k","g","s">>),
                       LitI(<<"K","G">>), LitI(<<"K","G","s">>)>>)),
          Wb, Star(Cls(Space \cup {"-", ":"})), Grp(3, Plus(Cls(Dot))), Eol>>)

\* /^(.+?)\s+[\-:]*\s*(\d+[.,]?\d*)\s*(kg|kgs)\b$/i
RePattern2 ==
    Cat(<<Bol, Grp(1, PlusLazy(Cls(Dot))), Plus(Cls(Space)), Star(Cls({"-", ":"})),
          Star(Cls(Space)), Grp(2, Number), Star(Cls(Space)),
          Grp(3, Alt(<<LitI(<<"k","g">>), LitI(<<"k","g","s">>)>>)), Wb, Eol>>)

\* /^(\d+)\s*[xX]\s*(.+)$/i
RePattern3 ==
    Cat(<<Bol, Grp(1, Plus(Cls(Digit))), Star(Cls(Space)), Cls({"x", "X"}),
          Star(Cls(Space)), Grp(2, Plus(Cls(Dot))), Eol>>)

\* /^(.+?)[:\-]\s*(\d+[.,]?\d*)\s*(qty|QTY|pcs|each)?$/i
RePattern4 ==
    Cat(<<Bol, Grp(1, PlusLazy(Cls(Dot))), Cls({":", "-"}), Star(Cls(Space)),
          Grp(2, Number), Star(Cls(Space)),
          Opt(Grp(3, Alt(<<LitI(<<"q","t","y">>), LitI(<<"Q","T","Y">>),
                           LitI(<<"p","c","s">>), LitI(<<"e","a","c","h">>)>>))),
          Eol>>)

\* /\bQty[:\s]*(\d+)\b\s*(.+)?/i
RePattern5 ==
    Cat(<<Wb, LitI(<<"Q","t","y">>), Star(Cls({":"} \cup Space)),
          Grp(1, Plus(Cls(Digit))), Wb, Star(Cls(Space)),
          Opt(Grp(2, Plus(Cls(Dot))))>>)

\* /^(.+?)\s+(\d+[.,]?\d*)$/
RePattern6 ==
    Cat(<<Bol, Grp(1, PlusLazy(Cls(Dot))), Plus(Cls(Space)), Grp(2, Number), Eol>>)

\* no placeholder: an item of pattern 5 without a description keeps ''
PlaceholderNone == << >>

\* || 'Item'
Placeholder == <<"I","t","e","m">>

Entry(description, quantity, pat) ==
    [description |-> description, quantity |-> quantity, pat |-> pat]

\* the body of the loop with the fallback, pattern 6, tried before pattern 4
entryOfLineFallbackEarly(l) ==
    IF Test(ReHeader, 1, l) THEN << >>
    ELSE LET m1 == Match(RePattern1, 3, l)
         IN  IF m1 # << >>
             THEN <<Entry(Trim(Or(Group(m1, 3, l), << >>)),
                          Group(m1, 1, l) \o <<" ","k","g">>, 1)>>
    ELSE LET m2 == Match(RePattern2, 3, l)
         IN  IF m2 # << >>
             THEN <<Entry(Trim(Group(m2, 1, l)),
                          Group(m2, 2, l) \o <<" ","k","g">>, 2)>>
    ELSE LET m3 == Match(RePattern3, 2, l)
         IN  IF m3 # << >>
             THEN <<Entry(Trim(Group(m3, 2, l)), Trim(Group(m3, 1, l)), 3)>>
    ELSE LET m6 == Match(RePattern6, 2, l)
         IN  IF m6 # << >>
             THEN <<Entry(Trim(Group(m6, 1, l)), Trim(Group(m6, 2, l)), 6)>>
    ELSE LET m4 == Match(RePattern4, 3, l)
         IN  IF m4 # << >>
             THEN <<Entry(Trim(Group(m4, 1, l)), Trim(Group(m4, 2, l)), 4)>>
    ELSE LET m5 == Match(RePattern5, 2, l)
         IN  IF m5 # << >> /\ Group(m5, 1, l) # << >> /\ Group(m5, 1, l) # undefined
             THEN <<Entry(Or(Trim(Or(Group(m5, 2, l), << >>)), Placeholder),
                          Trim(Group(m5, 1, l)), 5)>>
             ELSE << >>

\* The body of the loop for one line l, up to the id: the description and
\* quantity of the item it pushes (none or one).  pat records which pattern
\* built the item; it is no field of the program's items.
entryOfLine(l) ==
    IF Test(ReHeader, 1, l) THEN << >>
    ELSE LET m1 == Match(RePattern1, 3, l)
         IN  IF m1 # << >>
             THEN <<Entry(Trim(Or(Group(m1, 3, l), << >>)),
                          Group(m1, 1, l) \o <<" ","k","g">>, 1)>>
    ELSE LET m2 == Match(RePattern2, 3, l)
         IN  IF m2 # << >>
             THEN <<Entry(Trim(Group(m2, 1, l)),
                          Group(m2, 2, l) \o <<" ","k","g">>, 2)>>
    ELSE LET m3 == Match(RePattern3, 2, l)
         IN  IF m3 # << >>
             THEN <<Entry(Trim(Group(m3, 2, l)), Trim(Group(m3, 1, l)), 3)>>
    ELSE LET m4 == Match(RePattern4, 3, l)
         IN  IF m4 # << >>
             THEN <<Entry(Trim(Group(m4, 1, l)), Trim(Group(m4, 2, l)), 4)>>
    ELSE LET m5 == Match(RePattern5, 2, l)
         IN  IF m5 # << >> /\ Group(m5, 1, l) # << >> /\ Group(m5, 1, l) # undefined
             THEN <<Entry(Or(Trim(Or(Group(m5, 2, l), << >>)), Placeholder),
                          Trim(Group(m5, 1, l)), 5)>>
    ELSE LET m6 == Match(RePattern6, 2, l)
         IN  IF m6 # << >>
             THEN <<Entry(Trim(Group(m6, 1, l)), Trim(Group(m6, 2, l)), 6)>>
             ELSE << >>

\* the entries with each item put before the items pushed so far
RECURSIVE entriesFromReversed(_, _)
entriesFromReversed(lines, k) ==
    IF k > Len(lines) THEN << >>
    ELSE LET pushed == entryOfLine(lines[k])
         IN  entriesFromReversed(lines, k + 1)
                \o [j \in 1..Len(pushed) |-> [entry |-> pushed[j], line |-> k]]

\* The entries of the lines from line k on, in the order of the loop, each
\* with the index of its line.
RECURSIVE entriesFrom(_, _)
entriesFrom(lines, k) ==
    IF k > Len(lines) THEN << >>
    ELSE LET pushed == entryOfLine(lines[k])
         IN  [j \in 1..Len(pushed) |-> [entry |-> pushed[j], line |-> k]]
                \o entriesFrom(lines, k + 1)

entriesOf(lines) == entriesFrom(lines, 1)

\* items.push({ id: Math.random().toString(36).slice(2,9), description, quantity })
\* for every entry; random is the sequence of tokens the random source delivers
pushItems(entries, random) ==
    [k \in 1..Len(entries) |->
        [id |-> random[k],
         description |-> entries[k].entry.description,
         quantity |-> entries[k].entry.quantity]]

parseItemsFromLines(lines, random) == pushItems(entriesOf(lines), random)

\* --------------------------------------------- parseTimesheetFromText

\* /notes|variations/i
ReNotes ==
    Alt(<<LitI(<<"n","o","t","e","s">>),
          LitI(<<"v","a","r","i","a","t","i","o","n","s">>)>>)

\* the lines without the folding of the carriage returns
LinesNoFold(s) == TrimAndFilter(SplitLF(s, << >>))

\* const normalized = text.replace(/\r/g, '\n')
\* const lines = normalized.split(/\n+/).map(l => l.trim()).filter(Boolean)
Lines(s) == TrimAndFilter(SplitLF(ReplaceCR(s), << >>))

\* lines[k] with a 0-based index
At(lines, k) == IF k + 1 <= Len(lines) THEN lines[k + 1] ELSE undefined

\* /\d+\s+\w+\s+(Road|Rd|St|Street|Ave|Avenue|Drive|Dr|Lane|Ln|Mitchell|Brookvale)/i
ReStreet ==
    Cat(<<Plus(Cls(Digit)), Plus(Cls(Space)), Plus(Cls(WordChar)), Plus(Cls(Space)),
          Grp(1, Alt(<<LitI(<<"R","o","a","d">>), LitI(<<"R","d">>), LitI(<<"S","t">>),
                       LitI(<<"S","t","r","e","e","t">>), LitI(<<"A","v","e">>),
                       LitI(<<"A","v","e","n","u","e">>), LitI(<<"D","r","i","v","e">>),
                       LitI(<<"D","r">>), LitI(<<"L","a","n","e">>), LitI(<<"L","n">>),
                       LitI(<<"M","i","t","c","h","e","l","l">>),
                       LitI(<<"B","r","o","o","k","v","a","l","e">>)>>))>>)

\* l => /\d+\s+\w+\s+(Road|...|Brookvale)/i : the arrow function returns the
\* RegExp object and never tests the line; an object is truthy
streetCallback(l) == TRUE

\* lines.find(callback)
RECURSIVE Find(_, _)
Find(lines, k) ==
    IF k > Len(lines) THEN undefined
    ELSE IF streetCallback(lines[k]) THEN lines[k]
    ELSE Find(lines, k + 1)

\* lines.findIndex(l => /notes|variations/i.test(l)), 0-based, -1 when none
RECURSIVE FindIndexNotes(_, _)
FindIndexNotes(lines, k) ==
    IF k > Len(lines) THEN -1
    ELSE IF Test(ReNotes, 0, lines[k]) THEN k - 1
    ELSE FindIndexNotes(lines, k + 1)

\* the client without the fallback to the first line
clientOfLabelsOnly(s, lines) ==
    Or(firstMatch(ReClient, s), Or(firstMatch(ReClientName, s), << >>))

clientOf(s, lines) ==
    Or(firstMatch(ReClient, s), Or(firstMatch(ReClientName, s), Or(At(lines, 0), << >>)))

jobIdOf(s) == Or(firstMatch(ReJobNo, s), Or(firstMatch(ReJob, s), << >>))

contactNameOf(s) == Or(firstMatch(ReContactName, s), Or(firstMatch(ReContact, s), << >>))

contactNumberOf(s) == Or(parsePhone(s), << >>)

addressOf(s, lines) == Or(firstMatch(ReAddress, s), Or(Find(lines, 1), << >>))

descriptionOf(s, lines) ==
    Or(firstMatch(ReDescription, s), Or(JoinSpace(Slice(lines, 1, 3)), << >>))

\* firstMatch(/Date[:\-\s]+(.+)/i, text) || parseDate(text)
extractedDateOf(s) == Or(firstMatch(ReDateLabel, s), parseDate(s))

\* the date without the default of the current date
dateOfNoDefault(extracted, now) == extracted

\* ... || new Date().toLocaleDateString('pt-BR'), which returns now
dateOf(extracted, now) == Or(extracted, now)

\* notes with a window of six lines after the marker line instead of five
notesOfSixLines(lines) ==
    LET notesIndex == FindIndexNotes(lines, 1)
    IN  IF notesIndex >= 0
        THEN JoinSpace(Slice(lines, notesIndex + 1, notesIndex + 7))
        ELSE << >>

\* const notesIndex = lines.findIndex(...); const notes = notesIndex >= 0 ? ... : ''
notesOf(lines) ==
    LET notesIndex == FindIndexNotes(lines, 1)
    IN  IF notesIndex >= 0
        THEN JoinSpace(Slice(lines, notesIndex + 1, notesIndex + 6))
        ELSE << >>

DescriptionLimit == 240
NotesLimit == 300

\* the constants client, jobId, contactName, contactNumber, address,
\* description and notes of the function, and of date what needs no clock
Scalars(s, lines) ==
    [client |-> clientOf(s, lines),
     jobId |-> jobIdOf(s),
     contactName |-> contactNameOf(s),
     contactNumber |-> contactNumberOf(s),
     address |-> addressOf(s, lines),
     description |-> descriptionOf(s, lines),
     extractedDate |-> extractedDateOf(s),
     notes |-> notesOf(lines)]

\* const result: TimesheetData = { ... }
Assemble(s, lines, scalars, now, items) ==
    [description |-> Or(scalars.description,
                        Substring0(JoinSpace(Slice(lines, 0, 2)), DescriptionLimit)),
     client |-> Or(scalars.client, << >>),
     contactName |-> Or(scalars.contactName, << >>),
     contactNumber |-> Or(scalars.contactNumber, << >>),
     address |-> Or(scalars.address, << >>),
     jobId |-> Or(scalars.jobId, << >>),
     items |-> items,
     date |-> dateOf(scalars.extractedDate, now),
     supervisorName |-> << >>,
     clientRepName |-> << >>,
     startTime |-> << >>,
     finishTime |-> << >>,
     travelTime |-> << >>,
     totalTime |-> << >>,
     notes |-> Or(scalars.notes, Substring0(s, NotesLimit))]

\* The function once its regex work is done: scalars and entries depend on
\* the text alone, now is what the clock returns and random what the random
\* source delivers.
parseStaged(s, lines, scalars, entries, now, random) ==
    Assemble(s, lines, scalars, now, pushItems(entries, random))

parseTimesheetFromText(s, now, random) ==
    parseStaged(s, Lines(s), Scalars(s, Lines(s)), entriesOf(Lines(s)), now, random)

\* ----------------------------------------------------------- the inputs

L_Client == <<"C","l","i","e","n","t",":"," ","A","c","m","e"," ","P","t","y"," ","L","t","d">>
L_Mobile == <<"M","o","b","i","l","e",":"," ","0","4","1","2"," ","3","4","5"," ","6","7","8">>
L_Asbestos == <<"1","0","k","g"," ","A","s","b","e","s","t","o","s"," ","w","a","s","t","e">>
L_Phone == <<"P","h","o","n","e",":"," ","1","3","0","0"," ","2","3","7"," ","2","8","7">>
L_JobDone == <<"J","o","b"," ","d","o","n","e"," ","0","3","/","1","1","/","2","0","2","4"," ","o","n","s","i","t","e">>
L_DateLabel == <<"D","a","t","e",":"," ","M","o","n","d","a","y">>
L_ClientName == <<"C","l","i","e","n","t"," ","N","a","m","e",":"," ","B","o","b">>
L_TelDashes == <<"T","e","l",":"," ","0","4","1","2","-","3","4","5","-","6","7","8">>
L_Bags == <<"B","a","g","s"," ","1","2">>
L_Blank == <<" "," ">>
L_Description == <<"D","e","s","c","r","i","p","t","i","o","n",":"," ","S","t","r","i","p"," ","o","u","t">>
L_Plain == <<"S","i","t","e"," ","c","l","e","a","n","u","p">>

\* the lines a text is made of
Pool == {L_Client, L_Mobile, L_Asbestos, L_Phone, L_JobDone, L_DateLabel,
         L_ClientName, L_TelDashes, L_Bags, L_Blank, L_Description, L_Plain}

\* the line breaks of a text: LF or CRLF
Breaks == {<<"\n">>, <<"\r","\n">>}

\* the values toLocaleDateString('pt-BR') may return
Dates == {<<"0","3","/","1","1","/","2","0","2","6">>,
          <<"0","4","/","1","1","/","2","0","2","6">>}

\* the tokens the random source may deliver
Ids == {<<"k","1">>, <<"k","2">>}

MaxLines == 2

RECURSIVE Join(_, _)
Join(ls, br) ==
    IF ls = << >> THEN << >>
    ELSE IF Len(ls) = 1 THEN ls[1]
    ELSE ls[1] \o br \o Join(Tail(ls), br)

\* the texts of at most n lines of pool
Texts(pool, n) ==
    {Join(ls, br) : ls \in UNION {[1..k -> pool] : k \in 0..n}, br \in Breaks}

\* -------------------------------------------------------- state machine

\* the six item patterns in the order of the source, each with its number of groups
ItemPatterns ==
    <<[re |-> RePattern1, groups |-> 3], [re |-> RePattern2, groups |-> 3],
      [re |-> RePattern3, groups |-> 2], [re |-> RePattern4, groups |-> 3],
      [re |-> RePattern5, groups |-> 2], [re |-> RePattern6, groups |-> 2]>>

\* the patterns for which l.match(pattern) is not null
Matching(l) ==
    {p \in DOMAIN ItemPatterns : Test(ItemPatterns[p].re, ItemPatterns[p].groups, l)}

\* for every line, the patterns that match it
MatchingOf(lines) == [i \in DOMAIN lines |-> Matching(lines[i])]

\* text: the input of the extraction
\* runs: the calls of parseTimesheetFromText on text that have returned, each
\*       with the date it read (now), the lines it split the text into
\*       (lines), the record it returned (result) and,
\*       for every item of the record, the line and the pattern it comes
\*       from (origin), and for every line the patterns that match it
\*       (matching)
VARIABLES text, runs

\* geminiService.ts
\* inFlight: the flag of the module
\* apiKey:   whether the environment holds an API key
\* call:     for every call of extractTimesheetData, where it is (pc), how it
\*           ended (outcome) and the error it threw (err); and, while its
\*           generateContentWithRetry runs and after it gave up on a
\*           rate-limit error, the attempt counter (attempt), the requests
\*           sent to the API (requests) and the error of the last one (err)
VARIABLES inFlight, apiKey, call

serviceVars == <<inFlight, apiKey, call>>

\* App.tsx
\* appState, data, loading, error, mySignature, supervisorSignature,
\* serialNumber, history, breakValue: the state of the component.  Of the
\*               fields of data the model keeps client (which stands for the
\*               fields no code reads), startTime, finishTime, totalTime and
\*               items; items is an array of references into heap
\* heap:         the item objects, by reference: two arrays that hold the same
\*               reference share the object
\* localStorage: the items 'aes_timesheet_serial' and 'aes_timesheet_history',
\*               each << >> while absent and <<value>> once written
\* uploads:      for every call u of handleFileUpload, where it is; its
\*               extraction is call u of extractTimesheetData
\* exports:      for every call of exportAsJPG, where it is (pc), the
\*               serialNumber of the render it was created in (serialNumber)
\*               and the saved state when it was called (before)
VARIABLES appState, data, loading, error, mySignature, supervisorSignature,
          serialNumber, history, breakValue, heap, localStorage, uploads, exports

appVars == <<appState, data, loading, error, mySignature, supervisorSignature,
             serialNumber, history, breakValue, heap, localStorage, uploads, exports>>

vars == <<text, runs, serviceVars, appVars>>

\* the calls of extractTimesheetData
MaxCalls == 3
Calls == 1..MaxCalls

NoError == [status |-> 0, message |-> << >>]

IdleCall == [pc |-> "idle", attempt |-> 0, requests |-> 0, err |-> NoError, outcome |-> "none"]

\* let inFlight = false, and no call made
ServiceLoaded ==
    /\ inFlight = FALSE
    /\ call = [c \in Calls |-> IdleCall]

\* the calls of exportAsJPG
MaxExports == 2
Exports == 1..MaxExports

\* the item objects
MaxItems == 2
Refs == 1..MaxItems

\* null, of data; and null, of a string (error, mySignature, supervisorSignature)
NoData == [null |-> TRUE]
Null == "null"

\* a reference no object was created for
Free == [free |-> TRUE]

FirstSerial == 21215

IdleExport == [pc |-> "idle", serialNumber |-> 0, before |-> NoData]

\* the component after its first render and its mount effect, with nothing in
\* localStorage
AppMounted ==
    /\ appState = "IDLE"
    /\ data = NoData
    /\ loading = FALSE
    /\ error = Null
    /\ mySignature = Null
    /\ supervisorSignature = Null
    /\ serialNumber = FirstSerial
    /\ history = << >>
    /\ breakValue = << >>
    /\ heap = [r \in Refs |-> Free]
    /\ localStorage = [serial |-> << >>, history |-> << >>]
    /\ uploads = [u \in Calls |-> "idle"]
    /\ exports = [e \in Exports |-> IdleExport]

\* a TypeError was raised while the record was built
Threw(r) ==
    \/ \E f \in {"description", "client", "contactName", "contactNumber",
                 "address", "jobId", "date", "notes"} : r[f] = TypeError
    \/ \E k \in DOMAIN r.items :
          r.items[k].description = TypeError \/ r.items[k].quantity = TypeError

\* one call: its record, with what the call read and where its items come from
Run(s, lines, scalars, entries, matched, now, random) ==
    LET r == parseStaged(s, lines, scalars, entries, now, random)
    IN  [now |-> now,
         lines |-> lines,
         matching |-> matched,
         threw |-> Threw(r),
         result |-> r,
         origin |-> [k \in 1..Len(entries) |->
                        [line |-> entries[k].line, pat |-> entries[k].entry.pat]]]

\* the call with the items array shared by the calls instead of local to one
CallSharedItems ==
    \E lines \in {Lines(text)} :
    \E scalars \in {Scalars(text, lines)}, entries \in {entriesOf(lines)},
       matched \in {MatchingOf(lines)} :
    \E now \in Dates, random \in [1..Len(entries) -> Ids] :
       LET run == Run(text, lines, scalars, entries, matched, now, random)
           kept == IF runs = << >> THEN << >> ELSE runs[Len(runs)].result.items
       IN  runs' = Append(runs, [run EXCEPT !.result.items = kept \o @])

\* parseTimesheetFromText(text) is called and returns: the call reads the
\* clock once and the random source once per item
Call ==
    \E lines \in {Lines(text)} :
    \E scalars \in {Scalars(text, lines)}, entries \in {entriesOf(lines)},
       matched \in {MatchingOf(lines)} :
    \E now \in Dates, random \in [1..Len(entries) -> Ids] :
       runs' = Append(runs, Run(text, lines, scalars, entries, matched, now, random))

Init ==
    /\ text \in Texts(Pool, MaxLines)
    /\ runs = << >>
    /\ apiKey = TRUE
    /\ ServiceLoaded
    /\ AppMounted

\* the extraction of a text
Parse ==
    /\ runs = << >>
    /\ Call
    /\ UNCHANGED <<text, serviceVars, appVars>>

Next == Parse

Spec == Init /\ [][Next]_vars

\* The same text is extracted a second time (the clock may have moved on).
PoolRerun == {L_Asbestos, L_Bags, L_JobDone, L_Plain}

InitRerun ==
    /\ text \in Texts(PoolRerun, MaxLines)
    /\ runs = << >>
    /\ apiKey = TRUE
    /\ ServiceLoaded
    /\ AppMounted

Reparse ==
    /\ Len(runs) = 1
    /\ Call
    /\ UNCHANGED <<text, serviceVars, appVars>>

NextRerun == Parse \/ Reparse

SpecRerun == InitRerun /\ [][NextRerun]_vars

\* Texts of many short lines, some of them marker lines of the notes.
N_Notes == <<"N","o","t","e","s",":">>
N_Variations == <<"V","A","R","I","A","T","I","O","N","S">>
N_Other == <<"o","k">>

PoolNotes == {N_Notes, N_Variations, N_Other}

MaxNoteLines == 7

InitNotes ==
    /\ text \in {Join(ls, <<"\n">>) :
                    ls \in UNION {[1..k -> PoolNotes] : k \in 0..MaxNoteLines}}
    /\ runs = << >>
    /\ apiKey = TRUE
    /\ ServiceLoaded
    /\ AppMounted

SpecNotes == InitNotes /\ [][Next]_vars

\* Texts made of line breaks of the three conventions, white space and words,
\* in any order: runs of breaks, blank lines, lines to trim.
B_Word == <<"o","k">>

Pieces == {<<"\n">>, <<"\r">>, <<" ">>, B_Word}

MaxPieces == 5

RECURSIVE Concat(_)
Concat(ps) == IF ps = << >> THEN << >> ELSE Head(ps) \o Concat(Tail(ps))

InitBreaks ==
    /\ text \in {Concat(ps) : ps \in UNION {[1..k -> Pieces] : k \in 0..MaxPieces}}
    /\ runs = << >>
    /\ apiKey = TRUE
    /\ ServiceLoaded
    /\ AppMounted

SpecBreaks == InitBreaks /\ [][Next]_vars

\* Texts of item lines: lines that one pattern matches and lines that several do.
I_Qty == <<"Q","t","y"," ","5">>
I_QtyColon == <<"Q","t","y",":"," ","5">>
I_QtyUpper == <<"Q","T","Y",":","5">>
I_QtyBags == <<"Q","t","y"," ","5"," ","B","a","g","s">>
I_Times == <<"3"," ","x"," ","B","r","i","c","k","s">>
I_KgSuffix == <<"B","r","i","c","k","s"," ","1","0"," ","k","g">>
I_Dash == <<"B","a","g","s"," ","-"," ","5">>
I_KgTrailing == <<"1","0","k","g"," ","B","a","g","s"," ","1","2">>
I_TimesQty == <<"2"," ","x"," ","Q","t","y"," ","5">>
I_NumberQty == <<"5"," ","Q","t","y"," ","5">>
I_KgDash == <<"1","0","k","g"," ","-">>

PoolItems == {I_KgDash, I_Qty, I_QtyColon, I_QtyUpper, I_QtyBags, I_Times, I_KgSuffix, I_Dash,
              I_KgTrailing, I_TimesQty, I_NumberQty, L_Phone, L_Plain}

MaxItemLines == 2

InitItems ==
    /\ text \in {Join(ls, <<"\n">>) :
                    ls \in UNION {[1..k -> PoolItems] : k \in 0..MaxItemLines}}
    /\ runs = << >>
    /\ apiKey = TRUE
    /\ ServiceLoaded
    /\ AppMounted

SpecItems == InitItems /\ [][Next]_vars

\* Texts with dates of the three forms, in any order.
D_ISO == <<"J","o","b"," ","d","u","e"," ","2","0","2","4","-","1","1","-","0","5">>
D_MonthName == <<"J","o","b"," ","o","n"," ","3"," ","N","o","v"," ","2","0","2","4">>

PoolDates == {L_JobDone, D_ISO, D_MonthName, L_DateLabel, L_Plain}

MaxDateLines == 3

InitDates ==
    /\ text \in {Join(ls, <<"\n">>) :
                    ls \in UNION {[1..k -> PoolDates] : k \in 0..MaxDateLines}}
    /\ runs = << >>
    /\ apiKey = TRUE
    /\ ServiceLoaded
    /\ AppMounted

SpecDates == InitDates /\ [][Next]_vars

\* --------------------------------------------------------- geminiService

\* String.prototype.toLowerCase
toLowerCase(s) ==
    [k \in 1..Len(s) |->
        IF \E j \in 1..26 : s[k] = UpperLetters[j]
        THEN LowerLetters[CHOOSE j \in 1..26 : s[k] = UpperLetters[j]]
        ELSE s[k]]

\* String.prototype.includes
includes(s, w) == \E p \in 1..(Len(s) - Len(w) + 1) : SubSeq(s, p, p + Len(w) - 1) = w

\* the errors the API call may be rejected with: status 0 stands for an error
\* without a status
E_Status429 == [status |-> 429, message |-> <<"q","u","o","t","a"," ","e","x","c","e","e","d","e","d">>]
E_Message429 == [status |-> 0, message |-> <<"E","r","r","o","r"," ","4","2","9">>]
E_TooMany == [status |-> 0, message |-> <<"T","o","o"," ","M","a","n","y"," ","R","e","q","u","e","s","t","s">>]
E_Server == [status |-> 500, message |-> <<"b","o","o","m">>]

Errors == {E_Status429, E_Message429, E_TooMany, E_Server}

\* what the API call may resolve to: a response whose text is JSON, a response
\* without text, a response whose text is no JSON
Responses == {"json", "empty", "badjson"}

\* what extractTimesheetData may be called with: a data URL, or null (the
\* result of a FileReader that failed)
Images == {"dataurl", "null"}

isRateLimitError(err) ==
    \/ err.status = 429
    \/ includes(err.message, <<"4","2","9">>)
    \/ includes(toLowerCase(err.message), <<"t","o","o"," ","m","a","n","y"," ","r","e","q","u","e","s","t","s">>)

\* generateContentWithRetry(ai, payload, 4)
MaxRetries == 4

\* the catch of generateContentWithRetry rethrows one attempt late
RethrowsLate(err, attempt) == ~isRateLimitError(err) \/ attempt > MaxRetries

\* if (!isRateLimitError(err) || attempt >= maxRetries) throw err
Rethrows(err, attempt) == ~isRateLimitError(err) \/ attempt >= MaxRetries

\* the call c ends: it throws or returns (outcome)
Ended(c, outcome) == [call EXCEPT ![c] = [IdleCall EXCEPT !.pc = "done", !.outcome = outcome]]

\* the call c ends: generateContentWithRetry rethrows err
Thrown(c, err) ==
    IF isRateLimitError(err)
    THEN [call EXCEPT ![c].pc = "done", ![c].err = err, ![c].outcome = "threw"]
    ELSE [call EXCEPT ![c] = [IdleCall EXCEPT !.pc = "done", !.err = err, !.outcome = "threw"]]

\* extractTimesheetData with its guard inside the try, so that the finally
\* clears inFlight for a rejected call too
InvokeGuardInTry(c, image) ==
    /\ call[c].pc = "idle"
    /\ IF inFlight
       THEN /\ call' = Ended(c, "busy")
            /\ inFlight' = FALSE
       ELSE IF ~apiKey
       THEN /\ call' = Ended(c, "nokey")
            /\ inFlight' = FALSE
       ELSE IF image = "null"
       THEN /\ call' = Ended(c, "typeerror")
            /\ inFlight' = FALSE
       ELSE /\ call' = [call EXCEPT ![c].pc = "request", ![c].requests = 1]
            /\ inFlight' = TRUE

\* extractTimesheetData(image) is called, up to its first await: the guard, the
\* API key, the payload and the first request of generateContentWithRetry;
\* what it throws inside the try runs the finally
Invoke(c, image) ==
    /\ call[c].pc = "idle"
    /\ IF inFlight
       THEN /\ call' = Ended(c, "busy")
            /\ UNCHANGED inFlight
       ELSE IF ~apiKey
       THEN /\ call' = Ended(c, "nokey")
            /\ inFlight' = FALSE
       ELSE IF image = "null"
       THEN /\ call' = Ended(c, "typeerror")
            /\ inFlight' = FALSE
       ELSE /\ call' = [call EXCEPT ![c].pc = "request", ![c].requests = 1]
            /\ inFlight' = TRUE

\* the request of call c resolves without the finally of extractTimesheetData
RespondNoFinally(c, response) ==
    /\ call[c].pc = "request"
    /\ call' = Ended(c, CASE response = "json" -> "returned"
                          [] response = "empty" -> "empty"
                          [] response = "badjson" -> "badjson")
    /\ inFlight' = (response # "json" /\ inFlight)

\* the request of call c resolves: the response is checked and parsed, the
\* record returned or an error thrown, and the finally clears inFlight
Respond(c, response) ==
    /\ call[c].pc = "request"
    /\ call' = Ended(c, CASE response = "json" -> "returned"
                          [] response = "empty" -> "empty"
                          [] response = "badjson" -> "badjson")
    /\ inFlight' = FALSE

\* the request of call c is rejected with err: the catch of
\* generateContentWithRetry rethrows it (and the finally clears inFlight) or
\* starts the backoff
Fail(c, err) ==
    /\ call[c].pc = "request"
    /\ IF Rethrows(err, call[c].attempt)
       THEN /\ call' = Thrown(c, err)
            /\ inFlight' = FALSE
       ELSE /\ call' = [call EXCEPT ![c].pc = "sleep", ![c].err = err]
            /\ UNCHANGED inFlight

\* the backoff of call c is over: attempt++ and the next request
Wake(c) ==
    /\ call[c].pc = "sleep"
    /\ call' = [call EXCEPT ![c].pc = "request", ![c].attempt = @ + 1,
                            ![c].requests = @ + 1]
    /\ UNCHANGED inFlight

InitService ==
    /\ text = << >>
    /\ runs = << >>
    /\ apiKey \in BOOLEAN
    /\ ServiceLoaded
    /\ AppMounted

Called == \E c \in Calls, image \in Images : Invoke(c, image) /\ UNCHANGED <<text, runs, apiKey, appVars>>
Responded == \E c \in Calls, r \in Responses : Respond(c, r) /\ UNCHANGED <<text, runs, apiKey, appVars>>
Failed == \E c \in Calls, err \in Errors : Fail(c, err) /\ UNCHANGED <<text, runs, apiKey, appVars>>
Woke == \E c \in Calls : Wake(c) /\ UNCHANGED <<text, runs, apiKey, appVars>>

NextService == Called \/ Responded \/ Failed \/ Woke

SpecService == InitService /\ [][NextService]_vars

\* ------------------------------------------------------------------- App

\* NaN, of Number(); null, of parseToMinutes: a number is <<n>>
NaN == [nan |-> TRUE]
NoMinutes == << >>

DecimalDigits == <<"0","1","2","3","4","5","6","7","8","9">>

DigitValue(c) == (CHOOSE k \in 1..10 : DecimalDigits[k] = c) - 1

\* the value of a string of digits, 0 for the empty one
RECURSIVE DigitsValue(_)
DigitsValue(s) ==
    IF s = << >> THEN 0
    ELSE 10 * DigitsValue(SubSeq(s, 1, Len(s) - 1)) + DigitValue(s[Len(s)])

RECURSIVE Pow10(_)
Pow10(k) == IF k = 0 THEN 1 ELSE 10 * Pow10(k - 1)

\* the decimal digits of a natural number
RECURSIVE ToDigits(_)
ToDigits(n) ==
    IF n < 10 THEN <<DecimalDigits[n + 1]>>
    ELSE Append(ToDigits(n \div 10), DecimalDigits[(n % 10) + 1])

\* the numeric literal s with its one dot at d
Fraction(s, d) ==
    [num |-> DigitsValue(SubSeq(s, 1, d - 1) \o SubSeq(s, d + 1, Len(s))),
     den |-> Pow10(Len(s) - d)]

\* Number of a string without white space around it
NumberOfTrimmed(s) ==
    IF s = << >> THEN [num |-> 0, den |-> 1]
    ELSE IF \E k \in DOMAIN s : s[k] \notin Digit \cup {"."} THEN NaN
    ELSE IF Cardinality({k \in DOMAIN s : s[k] = "."}) > 1 \/ s = <<".">> THEN NaN
    ELSE IF \A k \in DOMAIN s : s[k] # "." THEN [num |-> DigitsValue(s), den |-> 1]
    ELSE Fraction(s, CHOOSE k \in DOMAIN s : s[k] = ".")

\* Number(s), for s made of digits, ".", white space and characters that
\* are no part of a numeric literal: the fraction num / den, or NaN.  White
\* space around the literal is dropped, the empty string is 0, and a literal
\* is digits, digits "." digits with one of the two parts possibly empty
ToNumber(str) == NumberOfTrimmed(TrimEnd(TrimStart(str)))

\* Math.round(num / den) for num >= 0: the nearest integer, a half going up
Round(num, den) == (2 * num + den) \div (2 * den)

\* s.split(":"): the pieces between the colons
RECURSIVE SplitColon(_, _)
SplitColon(s, piece) ==
    IF s = << >> THEN <<piece>>
    ELSE IF Head(s) = ":" THEN <<piece>> \o SplitColon(Tail(s), << >>)
    ELSE SplitColon(Tail(s), Append(piece, Head(s)))

\* s.replace(",", "."): the first comma only
RECURSIVE ReplaceComma(_)
ReplaceComma(s) ==
    IF s = << >> THEN << >>
    ELSE IF Head(s) = "," THEN <<".">> \o Tail(s)
    ELSE <<Head(s)>> \o ReplaceComma(Tail(s))

\* Math.round(hours * 60), or null
MinutesOfHours(hours) ==
    IF hours = NaN THEN NoMinutes ELSE <<Round(hours.num * 60, hours.den)>>

\* the HH:MM branch: h and m are Number(hStr) and Number(mStr)
MinutesOfHHMM(h, m) ==
    IF h = NaN \/ m = NaN THEN NoMinutes
    ELSE IF m.num >= 60 * m.den THEN NoMinutes
    ELSE <<Round(h.num * 60 * m.den + m.num * h.den, h.den * m.den)>>

\* const [hStr, mStr] = v.split(":")
MinutesOfParts(parts) == MinutesOfHHMM(ToNumber(parts[1]), ToNumber(parts[2]))

\* parseToMinutes after const v = (value || "").trim()
MinutesOfTrimmed(v) ==
    IF v = << >> THEN NoMinutes
    ELSE IF \E k \in DOMAIN v : v[k] = ":" THEN MinutesOfParts(SplitColon(v, << >>))
    ELSE MinutesOfHours(ToNumber(ReplaceComma(v)))

\* parseToMinutes(value): the minutes of "7:30", "07:30", "7.5" (hours) or
\* "7", as <<n>>, or null
parseToMinutes(value) == MinutesOfTrimmed(TrimEnd(TrimStart(value)))

\* the decimal string of a number of hundredths, with two decimals
Hundredths(n) ==
    ToDigits(n \div 100) \o <<".">>
    \o <<DecimalDigits[((n % 100) \div 10) + 1], DecimalDigits[(n % 10) + 1]>>

\* (mins / 60).toFixed(2): mins / 60 is never half way between two
\* hundredths, so the nearest hundredth is the rounded one
toFixed2(mins) == Hundredths((mins * 100 + 30) \div 60)

\* fixed.replace(/\.00$/, "")
DropZeroCents(s) ==
    IF Len(s) >= 3 /\ SubSeq(s, Len(s) - 2, Len(s)) = <<".", "0", "0">>
    THEN SubSeq(s, 1, Len(s) - 3)
    ELSE s

\* s.replace(/(\.\d)0$/, "$1")
DropLastZero(s) ==
    IF Len(s) >= 3 /\ s[Len(s)] = "0" /\ s[Len(s) - 1] \in Digit /\ s[Len(s) - 2] = "."
    THEN SubSeq(s, 1, Len(s) - 1)
    ELSE s

\* minutesToHoursString(mins): 450 -> "7.5", 480 -> "8"
minutesToHoursString(mins) == DropLastZero(DropZeroCents(toFixed2(mins)))

\* if ((data.totalTime || "") !== calculated) setData(...)
WithTotal(d, calculated) ==
    IF d.totalTime # calculated THEN [d EXCEPT !.totalTime = calculated] ELSE d

\* Math.max(0, diff - breakMins)
FinalMins(diff, breakMins) == IF diff - breakMins > 0 THEN diff - breakMins ELSE 0

\* if (diff < 0) diff += 24 * 60
OverMidnight(diff) == IF diff < 0 THEN diff + 24 * 60 ELSE diff

\* parseToMinutes(breakValue || "") ?? 0
OrZero(parsed) == IF parsed = NoMinutes THEN 0 ELSE parsed[1]

\* the effect of the total with the break left out
TotalWithoutBreak(d, startMins, finishMins, parsed) ==
    IF startMins = NoMinutes \/ finishMins = NoMinutes THEN d
    ELSE WithTotal(d, minutesToHoursString(
             FinalMins(OverMidnight(finishMins[1] - startMins[1]), 0)))

\* the effect of the total after its three calls of parseToMinutes
Total(d, startMins, finishMins, parsed) ==
    IF startMins = NoMinutes \/ finishMins = NoMinutes THEN d
    ELSE WithTotal(d, minutesToHoursString(
             FinalMins(OverMidnight(finishMins[1] - startMins[1]), OrZero(parsed))))

\* the body of the effect of the total, run on data d and breakValue break:
\* the data it leaves
totalTimeEffect(d, break) ==
    IF d = NoData THEN d
    ELSE Total(d, parseToMinutes(d.startTime), parseToMinutes(d.finishTime),
               parseToMinutes(break))

\* data?.startTime, data?.finishTime
Deps(d, break) ==
    IF d = NoData THEN <<undefined, undefined, break>>
    ELSE <<d.startTime, d.finishTime, break>>

\* the data after the render that follows a handler: the handler left d1 and
\* break1, the render before it had d0 and break0, and the effect of the
\* total runs when one of its dependencies changed
Rendered(d0, break0, d1, break1) ==
    IF Deps(d0, break0) # Deps(d1, break1) THEN totalTimeEffect(d1, break1) ELSE d1

\* --- handleFileUpload

E_Capture == "Erro na captura do print. Verifique a imagem."
E_Read == "Falha ao ler o arquivo."
E_Export == "Falha ao exportar imagem."

T_0800 == <<"0","8",":","0","0">>
T_1830 == <<"1","8",":","3","0">>
T_1030 == <<"1","0",":","3","0">>

\* what extractTimesheetData returns for the response "json", with
\* supervisorName set: the client and an empty items array come from the
\* response, the times are the fixed ones
ExtractionResult ==
    [client |-> "ACME", startTime |-> T_0800, finishTime |-> T_1830,
     totalTime |-> T_1030, items |-> << >>]

\* the calls of a handler are numbered in the order they are made
NextOf(pcs, idle) == CHOOSE k \in DOMAIN pcs : pcs[k] = idle /\ \A j \in 1..(k - 1) : pcs[j] # idle

\* handleFileUpload with the guard on loading removed
UploadUnguarded(u, file, throws) ==
    /\ uploads[u] = "idle"
    /\ IF ~file
       THEN /\ uploads' = [uploads EXCEPT ![u] = "nofile"]
            /\ UNCHANGED <<loading, appState, error>>
       ELSE IF throws
       THEN /\ loading' = FALSE
            /\ appState' = "SCANNING"
            /\ error' = E_Read
            /\ uploads' = [uploads EXCEPT ![u] = "done"]
       ELSE /\ loading' = TRUE
            /\ appState' = "SCANNING"
            /\ error' = Null
            /\ uploads' = [uploads EXCEPT ![u] = "reading"]
    /\ UNCHANGED <<data, mySignature, supervisorSignature, serialNumber, history,
                   breakValue, heap, localStorage, exports>>

\* handleFileUpload(e), call u, up to its return: it returns at once while
\* loading is set and when no file was chosen (file); otherwise it sets
\* loading and SCANNING and starts the reader, and when that throws
\* (throws) its outer catch runs
Upload(u, file, throws) ==
    /\ uploads[u] = "idle"
    /\ IF loading \/ ~file
       THEN /\ uploads' = [uploads EXCEPT ![u] = IF loading THEN "busy" ELSE "nofile"]
            /\ UNCHANGED <<loading, appState, error>>
       ELSE IF throws
       THEN /\ loading' = FALSE
            /\ appState' = "SCANNING"
            /\ error' = E_Read
            /\ uploads' = [uploads EXCEPT ![u] = "done"]
       ELSE /\ loading' = TRUE
            /\ appState' = "SCANNING"
            /\ error' = Null
            /\ uploads' = [uploads EXCEPT ![u] = "reading"]
    /\ UNCHANGED <<data, mySignature, supervisorSignature, serialNumber, history,
                   breakValue, heap, localStorage, exports>>

\* the rest of reader.onloadend once the extraction of upload u has ended:
\* try, catch and finally, with the render after them
Completed(u) ==
    IF call'[u].pc # "done"
    THEN UNCHANGED appVars
    ELSE /\ uploads' = [uploads EXCEPT ![u] = "done"]
         /\ loading' = FALSE
         /\ IF call'[u].outcome = "returned"
            THEN /\ data' = Rendered(data, breakValue, ExtractionResult, breakValue)
                 /\ appState' = "EDITING"
                 /\ UNCHANGED error
            ELSE /\ error' = E_Capture
                 /\ appState' = "IDLE"
                 /\ UNCHANGED data
         /\ UNCHANGED <<mySignature, supervisorSignature, serialNumber, history,
                        breakValue, heap, localStorage, exports>>

\* reader.onloadend of upload u with reader.result image: the call of
\* extractTimesheetData up to its first await, and the catch when it threw
LoadEnd(u, image) ==
    /\ uploads[u] = "reading"
    /\ Invoke(u, image)
    /\ IF call'[u].pc = "done"
       THEN Completed(u)
       ELSE /\ uploads' = [uploads EXCEPT ![u] = "extracting"]
            /\ UNCHANGED <<appState, data, loading, error, mySignature,
                           supervisorSignature, serialNumber, history, breakValue,
                           heap, localStorage, exports>>

\* a file-input event, delivered to handleFileUpload whatever is rendered
Chosen ==
    /\ \E u \in Calls : uploads[u] = "idle"
    /\ \E file \in BOOLEAN, throws \in BOOLEAN : Upload(NextOf(uploads, "idle"), file, throws)
    /\ UNCHANGED <<text, runs, serviceVars>>

LoadEnded ==
    /\ \E u \in Calls, image \in Images : LoadEnd(u, image)
    /\ UNCHANGED <<text, runs, apiKey>>

ExtractionResponded ==
    /\ \E u \in Calls, r \in Responses : uploads[u] = "extracting" /\ Respond(u, r) /\ Completed(u)
    /\ UNCHANGED <<text, runs, apiKey>>

ExtractionFailed ==
    /\ \E u \in Calls, err \in Errors : uploads[u] = "extracting" /\ Fail(u, err) /\ Completed(u)
    /\ UNCHANGED <<text, runs, apiKey>>

ExtractionWoke ==
    /\ \E u \in Calls : uploads[u] = "extracting" /\ Wake(u)
    /\ UNCHANGED <<text, runs, apiKey, appVars>>

\* the uploads of a mounted component, under every interleaving of
\* file-input events, reader events and API events
InitUpload ==
    /\ text = << >>
    /\ runs = << >>
    /\ apiKey \in BOOLEAN
    /\ ServiceLoaded
    /\ AppMounted

NextUpload == Chosen \/ LoadEnded \/ ExtractionResponded \/ ExtractionFailed \/ ExtractionWoke

SpecUpload == InitUpload /\ [][NextUpload]_vars

\* --- the form and the history

\* what the user types or ticks
Clients == {"BRICKS"}
Descriptions == {"quoted"}
Quantities == {"5"}
Signatures == {"data:image/png"}

\* items.findIndex(i => i.description === desc), counted from 1, 0 for -1
IndexOf(items, desc) ==
    IF \E k \in DOMAIN items : heap[items[k]].description = desc
    THEN CHOOSE k \in DOMAIN items :
            /\ heap[items[k]].description = desc
            /\ \A j \in 1..(k - 1) : heap[items[j]].description # desc
    ELSE 0

\* getItemQty(desc)
getItemQty(desc) ==
    IF data = NoData \/ IndexOf(data.items, desc) = 0 THEN ""
    ELSE heap[data.items[IndexOf(data.items, desc)]].quantity

\* the reference of the next object created
NewRef == CHOOSE r \in Refs : heap[r] = Free /\ \A q \in 1..(r - 1) : heap[q] # Free

\* updateField(field, value), and the render after it
updateField(field, value) ==
    /\ data # NoData
    /\ data' = Rendered(data, breakValue, [data EXCEPT ![field] = value], breakValue)
    /\ UNCHANGED <<appState, loading, error, mySignature, supervisorSignature,
                   serialNumber, history, breakValue, heap, localStorage, uploads, exports>>

\* updateItemQty(desc, qty): newItems is a new array of the same objects, so
\* the assignment to newItems[index].quantity writes the object that
\* data.items holds; the id of a new item is left out
updateItemQty(desc, qty) ==
    /\ data # NoData
    /\ IF IndexOf(data.items, desc) > 0
       THEN /\ heap' = [heap EXCEPT ![data.items[IndexOf(data.items, desc)]].quantity = qty]
            /\ UNCHANGED data
       ELSE /\ \E r \in Refs : heap[r] = Free
            /\ heap' = [heap EXCEPT ![NewRef] = [description |-> desc, quantity |-> qty]]
            /\ data' = [data EXCEPT !.items = Append(@, NewRef)]
    /\ UNCHANGED <<appState, loading, error, mySignature, supervisorSignature,
                   serialNumber, history, breakValue, localStorage, uploads, exports>>

\* toggleCheck(id)
toggleCheck(id) == updateItemQty(id, IF getItemQty(id) = "X" THEN "" ELSE "X")

\* JSON.stringify(h): the entries with the item objects written out
Stringify(h) ==
    [k \in DOMAIN h |->
        [h[k] EXCEPT !.data.items = [i \in DOMAIN @ |-> heap[@[i]]]]]

\* the entry saveToHistory makes; the id stands for the random id and the
\* timestamp
NewEntry(id) ==
    [id |-> id, serial |-> serialNumber, data |-> data,
     mySignature |-> mySignature, supervisorSignature |-> supervisorSignature]

\* saveToHistory(): the history it sets and stores
saveToHistory(id) == IF data = NoData THEN history ELSE <<NewEntry(id)>> \o history

\* history.filter(item => item.id !== id)
RECURSIVE Without(_, _)
Without(h, id) ==
    IF h = << >> THEN << >>
    ELSE (IF Head(h).id # id THEN <<Head(h)>> ELSE << >>) \o Without(Tail(h), id)

\* deleteFromHistory(id)
deleteFromHistory(id) ==
    /\ history' = Without(history, id)
    /\ localStorage' = [localStorage EXCEPT !.history = <<Stringify(Without(history, id))>>]
    /\ UNCHANGED <<appState, data, loading, error, mySignature, supervisorSignature,
                   serialNumber, breakValue, heap, uploads, exports>>

\* loadFromHistory(entry), and the render after it
loadFromHistory(entry) ==
    /\ data' = Rendered(data, breakValue, entry.data, breakValue)
    /\ serialNumber' = entry.serial
    /\ mySignature' = entry.mySignature
    /\ supervisorSignature' = entry.supervisorSignature
    /\ appState' = "EDITING"
    /\ UNCHANGED <<loading, error, history, breakValue, heap, localStorage, uploads, exports>>

\* exportAsJPG(), call e, up to its first await: timesheetRef.current is the
\* form, which is rendered when data is set, and without it the call returns
\* at once
Export(e) ==
    /\ exports[e].pc = "idle"
    /\ data # NoData
    /\ loading' = TRUE
    /\ history' = saveToHistory(e)
    /\ localStorage' = [localStorage EXCEPT !.history = <<Stringify(saveToHistory(e))>>]
    /\ exports' = [exports EXCEPT ![e] =
                      [pc |-> "rendering", serialNumber |-> serialNumber,
                       before |-> [serialNumber |-> serialNumber, history |-> history,
                                   localStorage |-> localStorage]]]
    /\ UNCHANGED <<appState, data, error, mySignature, supervisorSignature, serialNumber,
                   breakValue, heap, uploads>>

\* the image was rendered: the rest of the try, and the finally.  serialNumber
\* is the one of the render the call was created in.  Without a form
\* (data is null again) toJpeg has nothing to render and throws
Exported(e) ==
    /\ exports[e].pc = "rendering"
    /\ data # NoData
    /\ serialNumber' = exports[e].serialNumber + 1
    /\ localStorage' = [localStorage EXCEPT !.serial = <<exports[e].serialNumber + 1>>]
    /\ loading' = FALSE
    /\ exports' = [exports EXCEPT ![e] = [IdleExport EXCEPT !.pc = "done"]]
    /\ UNCHANGED <<appState, data, error, mySignature, supervisorSignature, history,
                   breakValue, heap, uploads>>

\* the rendering threw: the catch and the finally
ExportThrew(e) ==
    /\ exports[e].pc = "rendering"
    /\ error' = E_Export
    /\ loading' = FALSE
    /\ exports' = [exports EXCEPT ![e] = [IdleExport EXCEPT !.pc = "failed"]]
    /\ UNCHANGED <<appState, data, mySignature, supervisorSignature, serialNumber,
                   history, breakValue, heap, localStorage, uploads>>

\* the events of the page, each enabled while its element is rendered

\* Sair
Exited ==
    /\ appState # "IDLE"
    /\ appState' = "IDLE"
    /\ data' = NoData
    /\ error' = Null
    /\ UNCHANGED <<loading, mySignature, supervisorSignature, serialNumber, history,
                   breakValue, heap, localStorage, uploads, exports>>
    /\ UNCHANGED <<text, runs, serviceVars>>

\* Assinar, and the two signature cells of the form
SigningOpened ==
    /\ appState # "IDLE" \/ data # NoData
    /\ appState' = "SIGNING"
    /\ UNCHANGED <<data, loading, error, mySignature, supervisorSignature, serialNumber,
                   history, breakValue, heap, localStorage, uploads, exports>>
    /\ UNCHANGED <<text, runs, serviceVars>>

\* Back and Confirm
SigningClosed ==
    /\ appState = "SIGNING"
    /\ appState' = "EDITING"
    /\ UNCHANGED <<data, loading, error, mySignature, supervisorSignature, serialNumber,
                   history, breakValue, heap, localStorage, uploads, exports>>
    /\ UNCHANGED <<text, runs, serviceVars>>

\* onSave and onClear of the two signature pads
Signed ==
    /\ appState = "SIGNING"
    /\ \E s \in Signatures \cup {Null} :
          \/ mySignature' = s /\ UNCHANGED supervisorSignature
          \/ supervisorSignature' = s /\ UNCHANGED mySignature
    /\ UNCHANGED <<appState, data, loading, error, serialNumber, history, breakValue,
                   heap, localStorage, uploads, exports>>
    /\ UNCHANGED <<text, runs, serviceVars>>

ClientEdited ==
    /\ \E v \in Clients : updateField("client", v)
    /\ UNCHANGED <<text, runs, serviceVars>>

ItemEdited ==
    /\ \E desc \in Descriptions, qty \in Quantities : updateItemQty(desc, qty)
    /\ UNCHANGED <<text, runs, serviceVars>>

Toggled ==
    /\ \E id \in Descriptions : toggleCheck(id)
    /\ UNCHANGED <<text, runs, serviceVars>>

EntryLoaded ==
    /\ appState = "IDLE"
    /\ \E k \in DOMAIN history : loadFromHistory(history[k])
    /\ UNCHANGED <<text, runs, serviceVars>>

EntryDeleted ==
    /\ appState = "IDLE"
    /\ \E k \in DOMAIN history : deleteFromHistory(history[k].id)
    /\ UNCHANGED <<text, runs, serviceVars>>

ExportClicked ==
    /\ appState # "IDLE"
    /\ \E e \in Exports : exports[e].pc = "idle"
    /\ Export(NextOf([e \in Exports |-> exports[e].pc], "idle"))
    /\ UNCHANGED <<text, runs, serviceVars>>

ExportDone ==
    /\ \E e \in Exports : Exported(e)
    /\ UNCHANGED <<text, runs, serviceVars>>

ExportFailed ==
    /\ \E e \in Exports : ExportThrew(e)
    /\ UNCHANGED <<text, runs, serviceVars>>

\* the form after the first upload of a mounted component returned
InitSaved ==
    /\ text = << >>
    /\ runs = << >>
    /\ apiKey = TRUE
    /\ inFlight = FALSE
    /\ call = [c \in Calls |->
                  IF c = 1 THEN [IdleCall EXCEPT !.pc = "done", !.outcome = "returned"]
                  ELSE IdleCall]
    /\ appState = "EDITING"
    /\ data = totalTimeEffect(ExtractionResult, << >>)
    /\ loading = FALSE
    /\ error = Null
    /\ mySignature = Null
    /\ supervisorSignature = Null
    /\ serialNumber = FirstSerial
    /\ history = << >>
    /\ breakValue = << >>
    /\ heap = [r \in Refs |-> Free]
    /\ localStorage = [serial |-> << >>, history |-> << >>]
    /\ uploads = [u \in Calls |-> IF u = 1 THEN "done" ELSE "idle"]
    /\ exports = [e \in Exports |-> IdleExport]

\* the edits of the form, its exports and the loads of what they saved
NextSaved ==
    \/ Exited
    \/ ClientEdited \/ ItemEdited \/ Toggled
    \/ EntryLoaded \/ EntryDeleted
    \/ ExportClicked \/ ExportDone \/ ExportFailed

SpecSaved == InitSaved /\ [][NextSaved]_vars

\* what two exports of an earlier session left in localStorage: the first
\* timesheet with the serial FirstSerial and the second with the next one
StoredEntry(n) ==
    [id |-> MaxExports + n, serial |-> FirstSerial + n - 1,
     data |-> totalTimeEffect(ExtractionResult, << >>),
     mySignature |-> Null, supervisorSignature |-> Null]

Stored == [serial |-> <<FirstSerial + 2>>, history |-> <<<<StoredEntry(2), StoredEntry(1)>>>>]

\* the component after its first render and its mount effect, over what the
\* earlier session stored: parseInt of the serial, JSON.parse of the history
InitStored ==
    /\ text = << >>
    /\ runs = << >>
    /\ apiKey = TRUE
    /\ ServiceLoaded
    /\ appState = "IDLE"
    /\ data = NoData
    /\ loading = FALSE
    /\ error = Null
    /\ mySignature = Null
    /\ supervisorSignature = Null
    /\ serialNumber = Stored.serial[1]
    /\ history = Stored.history[1]
    /\ breakValue = << >>
    /\ heap = [r \in Refs |-> Free]
    /\ localStorage = Stored
    /\ uploads = [u \in Calls |-> "idle"]
    /\ exports = [e \in Exports |-> IdleExport]

\* every sequence of exports, loads and deletions
NextSerial ==
    \/ Exited
    \/ EntryLoaded \/ EntryDeleted
    \/ ExportClicked \/ ExportDone \/ ExportFailed

SpecSerial == InitStored /\ [][NextSerial]_vars
\* --- the times of the form

T_2200 == <<"2","2",":","0","0">>
T_0615 == <<"0","6",":","1","5">>
T_0960 == <<"9",":","6","0">>

\* what the user types into Start, Finish, Total and Break
Times == {T_0800, T_1830, T_2200, T_0615, T_0960}
Totals == {T_1030, <<"9">>}
BreakValues == {<< >>, <<"0",":","3","0">>, <<"1",",","5">>, <<"1","2">>, <<"x">>}

TimeEdited ==
    /\ \E field \in {"startTime", "finishTime"}, v \in Times : updateField(field, v)
    /\ UNCHANGED <<text, runs, serviceVars>>

TotalEdited ==
    /\ \E v \in Totals : updateField("totalTime", v)
    /\ UNCHANGED <<text, runs, serviceVars>>

\* setBreakValue(e.target.value), and the render after it
BreakEdited ==
    /\ data # NoData
    /\ \E v \in BreakValues :
          /\ breakValue' = v
          /\ data' = Rendered(data, breakValue, data, v)
    /\ UNCHANGED <<appState, loading, error, mySignature, supervisorSignature,
                   serialNumber, history, heap, localStorage, uploads, exports>>
    /\ UNCHANGED <<text, runs, serviceVars>>

\* the edits of the times, the signatures and the loads from the history
NextTotal ==
    \/ TimeEdited \/ TotalEdited \/ BreakEdited
    \/ SigningOpened \/ SigningClosed \/ Signed
    \/ Exited \/ EntryLoaded

SpecTotal == InitStored /\ [][NextTotal]_vars

\* ------------------------------------------------------------ properties

V_Acme == <<"A","c","m","e"," ","P","t","y"," ","L","t","d">>
V_Mobile == <<"0","4","1","2","3","4","5","6","7","8">>
V_AsbestosWaste == <<"A","s","b","e","s","t","o","s"," ","w","a","s","t","e">>
V_TenKg == <<"1","0"," ","k","g">>
V_JobDate == <<"0","3","/","1","1","/","2","0","2","4">>

StringFields ==
    {"description", "client", "contactName", "contactNumber", "address", "jobId",
     "date", "notes", "supervisorName", "clientRepName", "startTime", "finishTime",
     "travelTime", "totalTime"}

\* l is one of the normalized lines of the text
HasLine(l) == l \in Range(Lines(text))

\* C1: every call of parseTimesheetFromText returns without an exception, and
\* in the record it returns every scalar field is a string and items is a
\* sequence of items whose id, description and quantity are strings.
C1_Totality ==
    \A k \in DOMAIN runs :
        /\ ~runs[k].threw
        /\ \A f \in StringFields : IsString(runs[k].result[f])
        /\ DOMAIN runs[k].result.items = 1..Len(runs[k].result.items)
        /\ \A j \in DOMAIN runs[k].result.items :
              /\ IsString(runs[k].result.items[j].id)
              /\ IsString(runs[k].result.items[j].description)
              /\ IsString(runs[k].result.items[j].quantity)

\* the empty text has been extracted: every field of the record is empty but date
C1_EmptyTextParsed ==
    /\ runs # << >>
    /\ text = << >>
    /\ runs[1].result.client = << >>
    /\ runs[1].result.notes = << >>
    /\ runs[1].result.items = << >>
    /\ runs[1].result.date = runs[1].now

\* C2: when the text has the line "Client: Acme Pty Ltd", the client of the
\* record is "Acme Pty Ltd", whatever the other lines are and wherever they are.
C2_LabelPrecedence ==
    \A k \in DOMAIN runs : HasLine(L_Client) => runs[k].result.client = V_Acme

\* C3: when the text has the line "Mobile: 0412 345 678", the contactNumber of
\* the record is "0412345678", whatever lines precede or follow it.
C3_PhoneNormalization ==
    \A k \in DOMAIN runs : HasLine(L_Mobile) => runs[k].result.contactNumber = V_Mobile

\* C4: the contactNumber of the record holds digits and '+' only.
C4_PhoneDigitsOnly ==
    \A k \in DOMAIN runs :
        \A j \in DOMAIN runs[k].result.contactNumber :
            runs[k].result.contactNumber[j] \in Digit \cup {"+"}

\* the items of run that come from line i
ItemsOfLine(run, i) == {j \in DOMAIN run.origin : run.origin[j].line = i}

\* C5: every line "10kg Asbestos waste" of the text gives exactly one item, with
\* description "Asbestos waste" and quantity "10 kg", built by pattern 1.
C5_ItemPatternPriority ==
    \A k \in DOMAIN runs :
        LET lines == Lines(text)
        IN  \A i \in DOMAIN lines :
                lines[i] = L_Asbestos =>
                    /\ Cardinality(ItemsOfLine(runs[k], i)) = 1
                    /\ \A j \in ItemsOfLine(runs[k], i) :
                          /\ runs[k].result.items[j].description = V_AsbestosWaste
                          /\ runs[k].result.items[j].quantity = V_TenKg
                          /\ runs[k].origin[j].pat = 1

\* the line follows another line that gives an item of its own
C5_AsbestosAfterBags ==
    /\ runs # << >>
    /\ Lines(text) = <<L_Bags, L_Asbestos>>
    /\ Len(runs[1].result.items) = 2
    /\ runs[1].result.items[2].quantity = V_TenKg

LowerOf(ch) ==
    IF \E k \in 1..26 : ch = UpperLetters[k]
    THEN LowerLetters[CHOOSE k \in 1..26 : ch = UpperLetters[k]]
    ELSE ch

HeaderWords ==
    {<<"c","l","i","e","n","t">>, <<"c","o","n","t","a","c","t">>,
     <<"a","d","d","r","e","s","s">>, <<"j","o","b">>, <<"d","a","t","e">>,
     <<"d","e","s","c","r","i","p","t","i","o","n">>, <<"n","o","t","e","s">>,
     <<"s","u","p","e","r","v","i","s","o","r">>,
     <<"t","e","l","e","p","h","o","n","e">>, <<"p","h","o","n","e">>}

\* l begins, in any case, with a label word followed by a colon or white space
BeginsWithLabel(l) ==
    \E w \in HeaderWords :
        /\ Len(l) > Len(w)
        /\ [k \in 1..Len(w) |-> LowerOf(l[k])] = w
        /\ l[Len(w) + 1] \in {":"} \cup Space

\* C6: a normalized line that begins with a label word followed by a colon or
\* white space gives no item.
C6_HeaderExclusion ==
    \A k \in DOMAIN runs :
        LET lines == Lines(text)
        IN  \A i \in DOMAIN lines :
                BeginsWithLabel(lines[i]) => ItemsOfLine(runs[k], i) = {}

\* "Phone: 1300 237 287", which pattern 6 matches, gave no item; the line after it did
C6_PhoneLineSkipped ==
    /\ runs # << >>
    /\ Lines(text) = <<L_Phone, L_Bags>>
    /\ Match(RePattern6, 2, L_Phone) # << >>
    /\ Len(runs[1].result.items) = 1
    /\ runs[1].origin[1].line = 2

\* the Date label strategy gives nothing for the text
NoDateLabel == firstMatch(ReDateLabel, text) = << >>

\* C7 as stated: when the text has a numeric date (1-2 digits, '/' or '-', 1-2
\* digits, '/' or '-', 2-4 digits, between word boundaries), the date of the
\* record is the first such substring.
C7_NumericDateVerbatim ==
    \A k \in DOMAIN runs :
        LET d1 == Match(ReDateNumeric, 1, text)
        IN  d1 # << >> => runs[k].result.date = Whole(d1, text)

\* C7: when the Date label strategy gives nothing for the text and the text has
\* a numeric date, the date of the record is the first such substring, verbatim.
C7_NumericDateUnlabelled ==
    \A k \in DOMAIN runs :
        LET d1 == Match(ReDateNumeric, 1, text)
        IN  (NoDateLabel /\ d1 # << >>) => runs[k].result.date = Whole(d1, text)

\* the date of "Job done 03/11/2024 onsite" was taken out of the second line
C7_JobDoneDate ==
    /\ runs # << >>
    /\ Lines(text) = <<L_Plain, L_JobDone>>
    /\ runs[1].result.date = V_JobDate

\* C8 as stated: when the text has no recognizable date (numeric, ISO or month
\* name), the date of the record is the current date.
C8_NoDateGivesToday ==
    \A k \in DOMAIN runs :
        parseDate(text) = << >> => runs[k].result.date = runs[k].now

\* C8: when the Date label strategy gives nothing for the text and the text has
\* no recognizable date, the date of the record is the current date.
C8_NoDateNoLabelGivesToday ==
    \A k \in DOMAIN runs :
        (NoDateLabel /\ parseDate(text) = << >>) => runs[k].result.date = runs[k].now

\* a text without a date was extracted and its date is the date the clock gave
C8_PlainTextDated ==
    /\ runs # << >>
    /\ Lines(text) = <<L_Plain, L_Bags>>
    /\ runs[1].result.date = runs[1].now
    /\ runs[1].result.date \in Dates

\* a record without the ids of its items
WithoutIds(r) ==
    [r EXCEPT !.items = [j \in 1..Len(r.items) |->
                            <<r.items[j].description, r.items[j].quantity>>]]

C10_DescriptionFallback ==
    \A k \in DOMAIN runs :
        firstMatch(ReDescription, text) = << >> =>
            runs[k].result.description =
                Substring0(JoinSpace(Slice(Lines(text), 0, 2)), DescriptionLimit)
\* the first of lines, from line k on, that the street regex matches; the empty
\* string when there is none
RECURSIVE FirstStreetLine(_, _)
FirstStreetLine(lines, k) ==
    IF k > Len(lines) THEN << >>
    ELSE IF Test(ReStreet, 1, lines[k]) THEN lines[k]
    ELSE FirstStreetLine(lines, k + 1)

\* C11: when the Address label strategy gives nothing for the text, the address
\* of the record is the first normalized line that has a number, a word and a
\* street or place token, and the empty string when no line has one.
C11_AddressFallback ==
    \A k \in DOMAIN runs :
       firstMatch(ReAddress, text) = << >>
          => runs[k].result.address = FirstStreetLine(runs[k].lines, 1)

\* l contains "notes" or "variations", in any case
IsMarker(l) == Test(ReNotes, 0, l)

\* the lines of run that are marker lines
Markers(run) == {i \in DOMAIN run.lines : IsMarker(run.lines[i])}

\* the first marker line of run (run has one)
FirstMarker(run) == CHOOSE i \in Markers(run) : \A j \in Markers(run) : i <= j

\* C12: when a normalized line contains "notes" or "variations" and a line
\* follows the first such line, the notes of the record are the lines after it,
\* five at most, joined by single spaces.
C12_NotesWindow ==
    \A k \in DOMAIN runs :
       LET run == runs[k]
           n == Len(run.lines)
       IN  (Markers(run) # {} /\ FirstMarker(run) < n)
              => LET i == FirstMarker(run)
                     last == IF i + 5 < n THEN i + 5 ELSE n
                 IN  run.result.notes = JoinSpace(SubSeq(run.lines, i + 1, last))

\* six lines follow the first marker line and the notes end with the fifth
C12_SixthLineLeftOut ==
    \E k \in DOMAIN runs :
       LET run == runs[k]
       IN  /\ Len(run.lines) = 7
           /\ IsMarker(run.lines[1])
           /\ run.lines[7] = N_Other
           /\ run.result.notes = JoinSpace(SubSeq(run.lines, 2, 6))

\* C13: when no normalized line contains "notes" or "variations", the notes of
\* the record are the first 300 characters of the normalized text (the
\* normalized lines, one line break between two): at most 300 characters, no
\* carriage return and no blank line among them.
C13_NotesFallbackNormalized ==
    \A k \in DOMAIN runs :
       LET run == runs[k]
       IN  Markers(run) = {}
              => /\ run.result.notes = Substring0(Join(run.lines, <<"\n">>), NotesLimit)
                 /\ Len(run.result.notes) <= NotesLimit
                 /\ \A i \in DOMAIN run.result.notes : run.result.notes[i] # "\r"

\* the lines from line k on occur in s from position from on, one after the
\* other in this order
RECURSIVE OccurInOrder(_, _, _, _)
OccurInOrder(lines, k, s, from) ==
    IF k > Len(lines) THEN TRUE
    ELSE LET n == Len(lines[k])
             at == {p \in from..(Len(s) - n + 1) : SubSeq(s, p, p + n - 1) = lines[k]}
         IN  /\ at # {}
             /\ OccurInOrder(lines, k + 1, s,
                             (CHOOSE p \in at : \A q \in at : p <= q) + n)

\* C14: the lines of a text are non-empty, hold no line break and neither begin
\* nor end with white space; a text of white space only has no line; the lines
\* occur in the text in their order and hold all of the text but white space.
C14_Normalizer ==
    \A k \in DOMAIN runs :
       LET lines == runs[k].lines
       IN  /\ \A i \in DOMAIN lines :
                 /\ lines[i] # << >>
                 /\ lines[i][1] \notin Space
                 /\ lines[i][Len(lines[i])] \notin Space
                 /\ \A j \in DOMAIN lines[i] : lines[i][j] \notin LineTerminator
           /\ (\A i \in DOMAIN text : text[i] \in Space) => lines = << >>
           /\ OccurInOrder(lines, 1, text, 1)
           /\ RemoveSpace(JoinSpace(lines)) = RemoveSpace(text)

\* a text with a run of breaks, a CRLF and a CR, was split into two lines
C14_MixedBreaksSplit ==
    \E k \in DOMAIN runs :
       /\ text = B_Word \o <<"\r", "\n", "\r">> \o B_Word
       /\ runs[k].lines = <<B_Word, B_Word>>

V_Item == <<"I","t","e","m">>
V_Bricks == <<"B","r","i","c","k","s">>
V_Qty == <<"Q","t","y">>

\* w is a substring of l
Within(w, l) == \E p \in 1..(Len(l) - Len(w) + 1) : SubSeq(l, p, p + Len(w) - 1) = w

\* C15: every item comes from one normalized line, whose text holds its
\* description (or the description is the placeholder); no line gives more than
\* one item, so there are no more items than lines; and the items are in the
\* order of their lines.
C15_ItemsInSourceOrder ==
    \A k \in DOMAIN runs :
       LET run == runs[k]
           items == run.result.items
       IN  /\ Len(items) <= Len(run.lines)
           /\ DOMAIN run.origin = DOMAIN items
           /\ \A j \in DOMAIN items :
                 /\ run.origin[j].line \in DOMAIN run.lines
                 /\ \/ Within(items[j].description, run.lines[run.origin[j].line])
                    \/ items[j].description = V_Item
           /\ \A i, j \in DOMAIN items : i < j => run.origin[i].line < run.origin[j].line

\* "3 x Bricks" then "Qty 5": the item of the first line precedes that of the second
C15_BricksBeforeQty ==
    \E k \in DOMAIN runs :
       /\ runs[k].lines = <<I_Times, I_Qty>>
       /\ Len(runs[k].result.items) = 2
       /\ runs[k].result.items[1].description = V_Bricks
       /\ runs[k].result.items[2].description = V_Item

\* C16: every item of a record has a non-empty description and a non-empty
\* quantity, both strings.
C16_ItemFieldsNonEmpty ==
    \A k \in DOMAIN runs : \A j \in DOMAIN runs[k].result.items :
       LET item == runs[k].result.items[j]
       IN  /\ IsString(item.description) /\ item.description # << >>
           /\ IsString(item.quantity) /\ item.quantity # << >>

\* "Qty 5" gave an item built by pattern 5, with the placeholder as description
C16_PlaceholderItem ==
    \E k \in DOMAIN runs :
       /\ runs[k].lines = <<I_Qty>>
       /\ Len(runs[k].result.items) = 1
       /\ runs[k].origin[1].pat = 5
       /\ runs[k].result.items[1].description = V_Item
       /\ runs[k].result.items[1].quantity = <<"5">>

\* C17: the ids of the items of one record are non-empty and pairwise distinct,
\* whatever the random source delivers.
C17_IdsDistinct ==
    \A k \in DOMAIN runs :
       LET items == runs[k].result.items
       IN  /\ \A j \in DOMAIN items : items[j].id # << >>
           /\ \A i, j \in DOMAIN items : i # j => items[i].id # items[j].id

V_Bags == <<"B","a","g","s">>

\* the item of the lines that several patterns match: <<line, description, quantity>>
ItemOfAmbiguous ==
    {<<I_Dash, V_Bags, <<"5">> >>,
     <<I_KgTrailing, V_Bags \o <<" ","1","2">>, V_TenKg>>,
     <<I_TimesQty, I_Qty, <<"2">> >>,
     <<I_NumberQty, V_Item, <<"5">> >>,
     <<I_Qty, V_Item, <<"5">> >>,
     <<I_QtyColon, V_Qty, <<"5">> >>}

\* C18: a line that is no header line and that one of the six patterns matches
\* gives exactly one item, built by the lowest-numbered pattern that matches it.
C18_FirstPatternWins ==
    \A k \in DOMAIN runs : \A i \in DOMAIN runs[k].lines :
       LET run == runs[k]
           l == run.lines[i]
       IN  (~BeginsWithLabel(l) /\ run.matching[i] # {})
              => /\ Cardinality(ItemsOfLine(run, i)) = 1
                 /\ \A j \in ItemsOfLine(run, i) :
                       /\ run.origin[j].pat \in run.matching[i]
                       /\ \A p \in run.matching[i] : run.origin[j].pat <= p
                       /\ \A e \in ItemOfAmbiguous :
                             e[1] = l => /\ run.result.items[j].description = e[2]
                                         /\ run.result.items[j].quantity = e[3]

\* "Bags - 5", which patterns 4 and 6 match, gave the item of pattern 4
C18_DashBeforeFallback ==
    \E k \in DOMAIN runs :
       /\ runs[k].lines = <<I_Dash>>
       /\ runs[k].matching[1] = {4, 6}
       /\ Len(runs[k].result.items) = 1
       /\ runs[k].origin[1].pat = 4
       /\ runs[k].result.items[1].description = V_Bags

\* /^Qty[:\s]*(\d+)$/i : the token Qty, ':' or spaces, a number, nothing after it
ReQtyAlone ==
    Cat(<<Bol, LitI(V_Qty), Star(Cls({":"} \cup Space)), Grp(1, Plus(Cls(Digit))), Eol>>)

\* C19: a line made of the token Qty (in any case), colons or spaces if any, and
\* a number gives one item, whose quantity is the number and whose description
\* is the placeholder "Item".
C19_QtyAloneGivesPlaceholder ==
    \A k \in DOMAIN runs : \A i \in DOMAIN runs[k].lines :
       LET run == runs[k]
           l == run.lines[i]
           m == Match(ReQtyAlone, 1, l)
       IN  m # << >>
              => /\ Cardinality(ItemsOfLine(run, i)) = 1
                 /\ \A j \in ItemsOfLine(run, i) :
                       /\ run.result.items[j].quantity = Group(m, 1, l)
                       /\ run.result.items[j].description = V_Item

V_ISODate == <<"2","0","2","4","-","1","1","-","0","5">>
V_MonthNameDate == <<"3"," ","N","o","v"," ","2","0","2","4">>

\* the date the ranking of the forms gives for the text: the first numeric
\* date, without one the first ISO date, without one the first date with a
\* month name; the empty string when the text has none of them
RankedDate ==
    LET d1 == Match(ReDateNumeric, 1, text)
        d2 == Match(ReDateISO, 1, text)
        d3 == Match(ReDateMonthName, 2, text)
    IN  IF d1 # << >> THEN Whole(d1, text)
        ELSE IF d2 # << >> THEN Whole(d2, text)
        ELSE IF d3 # << >> THEN Whole(d3, text)
        ELSE << >>

\* C20 as stated: when the text has a date of one of the three forms, the date
\* of the record is the first numeric date if the text has one, otherwise the
\* first ISO date if it has one, otherwise the first date with a month name.
C20_DateRankedByForm ==
    \A k \in DOMAIN runs :
       RankedDate # << >> => runs[k].result.date = RankedDate

\* C20: when the Date label strategy gives nothing for the text and the text has
\* a date of one of the three forms, the date of the record is the first
\* numeric date if the text has one, otherwise the first ISO date if it has one,
\* otherwise the first date with a month name, wherever the dates are.
C20_DateRankedByFormUnlabelled ==
    \A k \in DOMAIN runs :
       (NoDateLabel /\ RankedDate # << >>) => runs[k].result.date = RankedDate

\* the date with a month name comes first, the ISO date second and the numeric
\* date last, and the date of the record is the numeric date
C20_NumericAfterOthers ==
    \E k \in DOMAIN runs :
       /\ runs[k].lines = <<D_MonthName, D_ISO, L_JobDone>>
       /\ runs[k].result.date = V_JobDate

\* C21: the client of the record is what the Client label strategy gives when it
\* gives something; when neither the Client nor the Client Name label strategy
\* gives something it is the first normalized line; and it is empty only when
\* the text has no normalized line.
C21_ClientChain ==
    \A k \in DOMAIN runs :
       LET run == runs[k]
           labelled == firstMatch(ReClient, text)
           named == firstMatch(ReClientName, text)
       IN  /\ labelled # << >> => run.result.client = labelled
           /\ (labelled = << >> /\ named = << >> /\ run.lines # << >>)
                 => run.result.client = run.lines[1]
           /\ run.result.client = << >> => run.lines = << >>

\* a text without a Client label: the client is its first line, which a blank
\* line precedes
C21_FirstLineAsClient ==
    \E k \in DOMAIN runs :
       /\ Len(text) > Len(L_Blank)
       /\ SubSeq(text, 1, Len(L_Blank)) = L_Blank
       /\ runs[k].lines = <<L_Plain>>
       /\ runs[k].result.client = L_Plain

\* the calls that are past the guard and have not ended
Active == {c \in Calls : call[c].pc \in {"request", "sleep"}}

\* C22: at most one call of extractTimesheetData is past the inFlight guard at
\* any time, and while one is, inFlight stays set: a call made meanwhile is
\* rejected, sends no request and does not clear the flag.
C22_SingleFlight ==
    /\ Cardinality(Active) <= 1
    /\ Active # {} => inFlight
    /\ \A c \in Calls : call[c].outcome = "busy" => call[c].requests = 0

\* a call waits for its retry while a second and a third call have been rejected
C22_TwoRejectedWhileOneRuns ==
    /\ call[1].pc = "sleep"
    /\ call[2].outcome = "busy"
    /\ call[3].outcome = "busy"
    /\ inFlight

\* C23: when no accepted call is running, inFlight is false, however the calls
\* before ended, so that the next call is accepted.
C23_InFlightReleased ==
    Active = {} => ~inFlight

\* a call ended on a response that is no JSON, the next gave up on a rate-limit
\* error, and the call after them was accepted
C23_AcceptedAfterFailures ==
    /\ call[1].outcome = "badjson"
    /\ call[2].outcome = "threw" /\ isRateLimitError(call[2].err)
    /\ call[3].pc = "request"

\* C24: a call sends at most MaxRetries + 1 requests, one per attempt; it waits
\* for a retry only after a rate-limit error and with fewer than MaxRetries
\* retries made; and it gives up on a rate-limit error only at the last attempt.
C24_RetryBound ==
    \A c \in Calls :
       /\ call[c].requests <= MaxRetries + 1
       /\ call[c].pc \in {"request", "sleep"} => call[c].requests = call[c].attempt + 1
       /\ call[c].pc = "sleep"
             => isRateLimitError(call[c].err) /\ call[c].attempt < MaxRetries
       /\ (call[c].outcome = "threw" /\ isRateLimitError(call[c].err))
             => call[c].requests = MaxRetries + 1

\* a call gave up on "Too Many Requests" at its fifth request
C24_GaveUpAtFifth ==
    \E c \in Calls :
       /\ call[c].outcome = "threw"
       /\ call[c].err = E_TooMany
       /\ call[c].requests = 5

\* --- the uploads

\* C25: every upload attempt that handleFileUpload started ends with loading
\* false and appState different from SCANNING: EDITING with data set when the
\* extraction returned, IDLE with an error message on every other path
C25_UploadEnds ==
    [][\A u \in Calls :
          (uploads[u] \in {"idle", "reading", "extracting"} /\ uploads'[u] = "done") =>
              /\ loading' = FALSE
              /\ appState' # "SCANNING"
              /\ IF call'[u].outcome = "returned"
                 THEN appState' = "EDITING" /\ data' # NoData
                 ELSE appState' = "IDLE" /\ error' # Null]_vars

\* the extractions that are in flight
Extracting == {u \in Calls : call[u].pc \in {"request", "sleep"}}

\* C26: while an extraction started from the UI is in flight, loading is set
\* and appState is SCANNING, whatever file-input events arrive meanwhile
C26_ScanningWhileInFlight == Extracting # {} => loading /\ appState = "SCANNING"

\* a second file-input event arrived while the first extraction was waiting
\* to retry, and was turned away
C26_SecondUploadTurnedAway ==
    /\ uploads[1] = "extracting"
    /\ call[1].pc = "sleep"
    /\ uploads[2] = "busy"
    /\ loading
    /\ appState = "SCANNING"
\* --- the exports and the history

\* the serial in localStorage, 0 while there is none
StoredSerial == IF localStorage.serial = << >> THEN 0 ELSE localStorage.serial[1]

\* the entries of the history have serials of their own
DistinctSerials ==
    \A j, k \in DOMAIN history : j # k => history[j].serial # history[k].serial

\* C27: the serial in localStorage never decreases, and no export writes a
\* history entry with the serial of another one
C27_SerialsIncrease == [][StoredSerial' >= StoredSerial /\ DistinctSerials']_vars

\* C28: when the rendering of an export throws, the serial and the history,
\* in memory and in localStorage, are what they were when the export was
\* started, and loading is false
C28_FailedExportChangesNothing ==
    [][\A e \in Exports :
          (exports[e].pc = "rendering" /\ exports'[e].pc = "failed") =>
              /\ serialNumber' = exports[e].before.serialNumber
              /\ history' = exports[e].before.history
              /\ localStorage' = exports[e].before.localStorage
              /\ loading' = FALSE]_vars

\* the data of the entries of the history, with the item objects written out
EntryData == [k \in DOMAIN history |-> Stringify(history)[k].data]

\* C30: an edit of the form leaves the data of every entry of the history
\* as it was saved
C30_EntriesAreSnapshots == [][history' = history => EntryData' = EntryData]_vars
\* --- the total

\* s is HH:MM with minutes 0..59
IsHHMM(s) == (\E k \in DOMAIN s : s[k] = ":") /\ parseToMinutes(s) # NoMinutes

\* finish - start in minutes, a day later when finish is before start
Worked(start, finish) ==
    IF finish >= start THEN finish - start ELSE finish - start + 1440

\* max(0, worked - break)
Paid(worked, break) == IF worked > break THEN worked - break ELSE 0

\* total, a decimal string, is mins minutes expressed in hours to the hundredth
InHours(total, mins) ==
    /\ ToNumber(total) # NaN
    /\ ToNumber(total).num * 100 = ((mins * 100 + 30) \div 60) * ToNumber(total).den

\* the total of d is the one its times and the break give
TotalIsAutomatic(d, break) ==
    InHours(d.totalTime,
            Paid(Worked(parseToMinutes(d.startTime)[1], parseToMinutes(d.finishTime)[1]),
                 OrZero(parseToMinutes(break))))

====
